---- MODULE Spec2Model ----
(***************************************************************************)
(* Model of the per-session streaming state machine of the ScribeAI        *)
(* websocket server (src/websocket/src/server.ts): ring buffer, adaptive   *)
(* batch threshold, bounded pending queue, the drain loop                  *)
(* (processPendingQueue) and the start / resume / audio_chunk /            *)
(* tab_audio_lost / stop handlers, together with the durable store they    *)
(* talk to.  Handlers are JavaScript async functions: one action is one    *)
(* run-to-completion segment between two await points.                     *)
(***************************************************************************)
EXTENDS Integers, Sequences, FiniteSets, Bags, TLC

(***************************************************************************)
(* Bounds of the model (not program constants).                            *)
(***************************************************************************)
MaxIngest == 20
MaxCtl == 2
MaxLifeIngest == 10
MaxLifeCtl == 3
MaxUnitCap == 3
MaxUnitPush == 5
MaxUnitEnq == 5

(***************************************************************************)
(* Program constants.                                                      *)
(***************************************************************************)
RingCapacity == 20
DefaultBatchMs == 30000
DefaultMaxPending == 3
FragmentMs == 3000
MinBatchMs == 15000
MaxBatchMs == 45000
StepMs == 5000
HighLatencyMs == 20000
LowLatencyMs == 8000

SessionIds == {"s1", "s2"}
UserIds == {"u1"}
Modes == {"mic", "tab"}
NULL == "<null>"
Unintelligible == "(unintelligible)"
GeminiUnavailable == "(Gemini unavailable)"
\* Latencies (end - start) the transcription call is observed with.
Latencies == {5000, 10000, 25000}

VARIABLES
    sessions,            \* registry: session id -> index into objs, 0 = absent
    objs,                \* heap of SessionMemoryState objects, in creation order
    drains,              \* processPendingQueue activations suspended at an await
    handlers,            \* start / resume / stop handlers suspended at an await
    dbStatus,            \* MeetingSession rows: session id -> status ("NONE" = no row)
    dbEndedAt,           \* MeetingSession rows: session id -> whether endedAt holds a time
    dbChunks,            \* TranscriptChunk rows per session, in append order
    dbSummary,           \* MeetingSummary rows per session, in insert order
    transcriptionModel,  \* whether a Gemini key is configured
    now,                 \* logical Date.now()
    nIngest,             \* audio_chunk events accepted so far
    nCtl,                \* start / resume / stop / tab_audio_lost events received so far
    caps,                \* how many events a run takes: [ingest, ctl]
    observe,             \* whether the outbound events are being recorded
    out,                 \* events emitted by the last step (when recorded)
    last,                \* the last step: [op, sid, userId] (when recorded)
    uring,               \* a ring buffer driven by pushes alone
    upushed,             \* the fragments pushed into uring, in push order
    uqueue,              \* a pending queue driven by enqueue / shift alone
    umaxPending,         \* its configured maximum
    uenq,                \* number of batches enqueued into uqueue
    ushifted,            \* number of batches shifted out of uqueue
    utaken,              \* timestamps of the batches passed to transcribeChunk, in call order
    ubatchMs,            \* a batch threshold driven by latency samples alone
    uaccMs,              \* the accumulated duration that goes with it
    ulatency,            \* the last latency sample
    uprevBatchMs,        \* the threshold before the last step
    ulast                \* the last step on the threshold

vars == <<sessions, objs, drains, handlers, dbStatus, dbEndedAt, dbChunks, dbSummary,
          transcriptionModel, now, nIngest, nCtl, caps, observe, out, last,
          uring, upushed, uqueue, umaxPending, uenq, ushifted, utaken,
          ubatchMs, uaccMs, ulatency, uprevBatchMs, ulast>>

progVars == <<sessions, objs, drains, handlers, dbStatus, dbEndedAt, dbChunks, dbSummary,
              transcriptionModel, now, nIngest, nCtl, caps, observe, out, last>>
ringVars == <<uring, upushed>>
queueVars == <<uqueue, umaxPending, uenq, ushifted, utaken>>
adaptVars == <<ubatchMs, uaccMs, ulatency, uprevBatchMs, ulast>>
unitVars == <<ringVars, queueVars, adaptVars>>

(***************************************************************************)
(* Ring buffer.                                                            *)
(***************************************************************************)
\* Array assignment a[i] = v with a 0-based index i, as JavaScript does it:
\* writing past the end grows the array.
ArraySet(a, i, v) ==
    IF i < Len(a) THEN [a EXCEPT ![i + 1] = v]
    ELSE [j \in 1..(i + 1) |-> IF j = i + 1 THEN v
                               ELSE IF j <= Len(a) THEN a[j] ELSE <<>>]

createRingBuffer(size) ==
    [data |-> [i \in 1..size |-> <<>>], capacity |-> size, index |-> 0]

ringPushNoWrap(ring, value) ==
    [ring EXCEPT !.data = ArraySet(ring.data, ring.index, value),
                 !.index = ring.index + 1]

\* ringPush wrapping one slot late.
ringPushWrapLate(ring, value) ==
    [ring EXCEPT !.data = ArraySet(ring.data, ring.index, value),
                 !.index = IF ring.index + 1 > ring.capacity THEN 0
                           ELSE ring.index + 1]

ringPush(ring, value) ==
    [ring EXCEPT !.data = ArraySet(ring.data, ring.index, value),
                 !.index = (ring.index + 1) % ring.capacity]

ringToArrayFromZero(ring) ==
    SelectSeq([i \in 1..ring.capacity |-> ring.data[i]], LAMBDA chunk : Len(chunk) > 0)

ringToArray(ring) ==
    LET slot(i) == ring.data[((ring.index + i) % ring.capacity) + 1]
        all == [i \in 1..ring.capacity |-> slot(i - 1)]
    IN SelectSeq(all, LAMBDA chunk : Len(chunk) > 0)

RECURSIVE BufferConcat(_)
BufferConcat(chunks) ==
    IF chunks = <<>> THEN <<>> ELSE Head(chunks) \o BufferConcat(Tail(chunks))

(***************************************************************************)
(* Pending queue.                                                          *)
(***************************************************************************)
EnqueueNoEvict(q, batch, maxPending) == q \o <<batch>>

EnqueueDropNewest(q, batch, maxPending) ==
    (IF Len(q) >= maxPending THEN SubSeq(q, 1, Len(q) - 1) ELSE q) \o <<batch>>

Enqueue(q, batch, maxPending) ==
    (IF Len(q) >= maxPending THEN Tail(q) ELSE q) \o <<batch>>

(***************************************************************************)
(* Adaptive batch sizing.                                                  *)
(***************************************************************************)
AdaptBatchMsNoCeiling(batchMs, latency) ==
    IF latency > HighLatencyMs THEN batchMs + StepMs
    ELSE IF latency < LowLatencyMs /\ batchMs > MinBatchMs THEN batchMs - StepMs
    ELSE batchMs

AdaptBatchMsInclusive(batchMs, latency) ==
    IF latency >= HighLatencyMs /\ batchMs < MaxBatchMs THEN batchMs + StepMs
    ELSE IF latency <= LowLatencyMs /\ batchMs > MinBatchMs THEN batchMs - StepMs
    ELSE batchMs

AdaptBatchMs(batchMs, latency) ==
    IF latency > HighLatencyMs /\ batchMs < MaxBatchMs THEN batchMs + StepMs
    ELSE IF latency < LowLatencyMs /\ batchMs > MinBatchMs THEN batchMs - StepMs
    ELSE batchMs

\* accumulatedMs after one more fragment, and whether that fragment flushes.
FlushesWhenAbove(accumulatedMs, batchMs) == accumulatedMs + FragmentMs > batchMs

Flushes(accumulatedMs, batchMs) == accumulatedMs + FragmentMs >= batchMs

\* accumulatedMs with the reset of a flush left out.
NextAccumulatedMsNoReset(accumulatedMs, batchMs) == accumulatedMs + FragmentMs

\* accumulatedMs with the flush keeping the excess over the threshold.
NextAccumulatedMsCarry(accumulatedMs, batchMs) ==
    IF Flushes(accumulatedMs, batchMs) THEN accumulatedMs + FragmentMs - batchMs
    ELSE accumulatedMs + FragmentMs

NextAccumulatedMs(accumulatedMs, batchMs) ==
    IF Flushes(accumulatedMs, batchMs) THEN 0 ELSE accumulatedMs + FragmentMs

(***************************************************************************)
(* Session memory state.                                                   *)
(***************************************************************************)
NewSessionStateLowThreshold(userId, mode, chunkIndex) ==
    [ring |-> createRingBuffer(RingCapacity),
     batchMs |-> MinBatchMs,
     lastGeminiLatency |-> 0,
     pendingBatches |-> <<>>,
     maxPending |-> DefaultMaxPending,
     userId |-> userId,
     mode |-> mode,
     dbChunkIndex |-> chunkIndex,
     accumulatedMs |-> 0]

NewSessionStateQueueOfOne(userId, mode, chunkIndex) ==
    [ring |-> createRingBuffer(RingCapacity),
     batchMs |-> DefaultBatchMs,
     lastGeminiLatency |-> 0,
     pendingBatches |-> <<>>,
     maxPending |-> 1,
     userId |-> userId,
     mode |-> mode,
     dbChunkIndex |-> chunkIndex,
     accumulatedMs |-> 0]

NewSessionState(userId, mode, chunkIndex) ==
    [ring |-> createRingBuffer(RingCapacity),
     batchMs |-> DefaultBatchMs,
     lastGeminiLatency |-> 0,
     pendingBatches |-> <<>>,
     maxPending |-> DefaultMaxPending,
     userId |-> userId,
     mode |-> mode,
     dbChunkIndex |-> chunkIndex,
     accumulatedMs |-> 0]

Event(type, sid, data) == [type |-> type, sid |-> sid, data |-> data]

ErrorEvent(sid, msg) == Event("session_error", sid, <<msg>>)

\* socket.emit of the events of one step, in order.
Emit(events) == out' = IF observe THEN events ELSE out

\* Which handler segment the step was, and the userId of its payload.
MarkUser(op, sid, userId) ==
    /\ last' = IF observe THEN [op |-> op, sid |-> sid, userId |-> userId] ELSE last
    /\ UNCHANGED <<caps, observe>>

Mark(op, sid) == MarkUser(op, sid, "")

ProgState ==
    /\ sessions = [s \in SessionIds |-> 0]
    /\ objs = <<>>
    /\ drains = {}
    /\ handlers = EmptyBag
    /\ dbStatus = [s \in SessionIds |-> "NONE"]
    /\ dbEndedAt = [s \in SessionIds |-> FALSE]
    /\ dbChunks = [s \in SessionIds |-> <<>>]
    /\ dbSummary = [s \in SessionIds |-> <<>>]
    /\ transcriptionModel \in BOOLEAN
    /\ now = 0
    /\ nIngest = 0
    /\ nCtl = 0
    /\ out = <<>>
    /\ last = [op |-> "init", sid |-> "", userId |-> ""]

\* A run of up to MaxIngest fragments and MaxCtl control events.
ProgCaps == caps = [ingest |-> MaxIngest, ctl |-> MaxCtl]

ProgInit == ProgCaps /\ observe = FALSE /\ ProgState

RingInit == uring = createRingBuffer(1) /\ upushed = <<>>
QueueInit ==
    /\ uqueue = <<>> /\ umaxPending = DefaultMaxPending /\ uenq = 0 /\ ushifted = 0
    /\ utaken = <<>>
AdaptInit ==
    /\ ubatchMs = DefaultBatchMs /\ uaccMs = 0 /\ ulatency = 0
    /\ uprevBatchMs = DefaultBatchMs /\ ulast = "init"

Init == ProgInit /\ RingInit /\ QueueInit /\ AdaptInit

(***************************************************************************)
(* processPendingQueue: the drain loop.  A drain is suspended either in    *)
(* transcribeChunk (pc "transcribe"), in transcriptChunk.create before the *)
(* store has executed it (pc "create"), or after the store has executed it *)
(* and before the continuation runs (pc "created" / "failed").             *)
(***************************************************************************)
\* The loop head `while (session.pendingBatches.length > 0)`, entered by the
\* drain [obj, sid]: either shifts the oldest batch and suspends in
\* transcribeChunk, or returns.  Yields the new heap and the suspended drain.
LoopHead(heap, o, sid) ==
    LET q == heap[o].pendingBatches IN
    IF Len(q) > 0
    THEN [objs |-> [heap EXCEPT ![o].pendingBatches = Tail(q)],
          drains |-> {[obj |-> o, sid |-> sid, pc |-> "transcribe",
                       batch |-> Head(q), result |-> NULL, index |-> -1,
                       text |-> NULL]}]
    ELSE [objs |-> heap, drains |-> {}]

\* processPendingQueue entered only when the session has no active drain.
processPendingQueueSingleFlight(heap, reg, sid) ==
    IF reg[sid] = 0 \/ (\E d \in drains : d.obj = reg[sid])
    THEN [objs |-> heap, drains |-> {}]
    ELSE LoopHead(heap, reg[sid], sid)

\* processPendingQueue(sessionId, socket) up to its first await.
processPendingQueue(heap, reg, sid) ==
    IF reg[sid] = 0 THEN [objs |-> heap, drains |-> {}]
    ELSE LoopHead(heap, reg[sid], sid)

\* The instruction transcribeChunk sends with the audio; the function takes
\* no mode.
TranscribePrompt(mode) == "Transcribe this audio. Return ONLY the raw transcript."

\* The request of the transcribeChunk call the drain d is waiting for.
TranscribeRequest(d) ==
    [audio |-> d.batch.audio, text |-> TranscribePrompt(objs[d.obj].mode)]

\* What transcribeChunk resolves to.
TranscribeResults ==
    IF transcriptionModel THEN {"hello", NULL} ELSE {GeminiUnavailable}

\* `(await transcribeChunk(batch.audio)) ?? "(unintelligible)"`.
TranscriptTextRaw(r) == r

TranscriptText(r) == IF r = NULL THEN Unintelligible ELSE r

\* transcribeChunk has resolved with r after `latency` ms: record the latency,
\* adapt the threshold, and call transcriptChunk.create with the current index.
TranscribeDone(d, r, latency) ==
    /\ d \in drains /\ d.pc = "transcribe"
    /\ r \in TranscribeResults /\ latency \in Latencies
    /\ objs' = [objs EXCEPT ![d.obj].lastGeminiLatency = latency,
                            ![d.obj].batchMs = AdaptBatchMs(objs[d.obj].batchMs, latency)]
    /\ drains' = (drains \ {d}) \cup
                 {[d EXCEPT !.pc = "create",
                            !.result = r,
                            !.index = objs[d.obj].dbChunkIndex,
                            !.text = TranscriptText(r)]}
    /\ Emit(<<>>)
    /\ Mark("transcribed", d.sid)
    /\ UNCHANGED <<sessions, handlers, dbStatus, dbEndedAt, dbChunks, dbSummary,
                   transcriptionModel, now, nIngest, nCtl>>
    /\ UNCHANGED unitVars

\* The store's unique index on (meetingSessionId, index).
ChunkIndexFree(sid, index) ==
    \A i \in 1..Len(dbChunks[sid]) : dbChunks[sid][i].index # index

\* The store executes transcriptChunk.create: it appends the row, or fails.
CreateExec(d, ok) ==
    /\ d \in drains /\ d.pc = "create"
    /\ ok \in BOOLEAN
    /\ IF ok /\ ChunkIndexFree(d.sid, d.index)
       THEN /\ dbChunks' = [dbChunks EXCEPT ![d.sid] =
                    Append(@, [index |-> d.index, text |-> d.text,
                               batch |-> d.batch.timestamp])]
            /\ drains' = (drains \ {d}) \cup {[d EXCEPT !.pc = "created"]}
       ELSE /\ dbChunks' = dbChunks
            /\ drains' = (drains \ {d}) \cup {[d EXCEPT !.pc = "failed"]}
    /\ Emit(<<>>)
    /\ Mark("create", d.sid)
    /\ UNCHANGED <<sessions, objs, handlers, dbStatus, dbEndedAt, dbSummary,
                   transcriptionModel, now, nIngest, nCtl>>
    /\ UNCHANGED unitVars

SaveFailedMsg == "Failed to save transcript chunk."

\* The index after transcriptChunk.create has resolved (ok) or thrown.
NextChunkIndexAlways(index, ok) == index + 1

NextChunkIndexOnFailure(index, ok) == IF ok THEN index ELSE index + 1

NextChunkIndex(index, ok) == IF ok THEN index + 1 ELSE index

\* The continuation after transcriptChunk.create with a failed batch given
\* to transcribeChunk again.
CreateDoneRetries(d) ==
    /\ d \in drains /\ d.pc \in {"created", "failed"}
    /\ LET ok == d.pc = "created"
           heap == [objs EXCEPT ![d.obj].dbChunkIndex = NextChunkIndex(@, ok)]
           nxt == IF ok THEN LoopHead(heap, d.obj, d.sid)
                  ELSE [objs |-> heap,
                        drains |-> {[d EXCEPT !.pc = "transcribe", !.result = NULL,
                                              !.index = -1, !.text = NULL]}]
       IN /\ objs' = nxt.objs
          /\ drains' = (drains \ {d}) \cup nxt.drains
          /\ Emit(IF ok
                  THEN <<Event("transcription_update", d.sid, <<d.text>>),
                         Event("diagnostics_update", d.sid,
                               <<heap[d.obj].batchMs, heap[d.obj].lastGeminiLatency,
                                 Len(heap[d.obj].pendingBatches)>>)>>
                  ELSE <<ErrorEvent(d.sid, SaveFailedMsg)>>)
    /\ Mark("created", d.sid)
    /\ UNCHANGED <<sessions, handlers, dbStatus, dbEndedAt, dbChunks, dbSummary,
                   transcriptionModel, now, nIngest, nCtl>>
    /\ UNCHANGED unitVars

\* The continuation after transcriptChunk.create with the two emits of the
\* success path in the other order.
CreateDoneDiagnosticsFirst(d) ==
    /\ d \in drains /\ d.pc \in {"created", "failed"}
    /\ LET ok == d.pc = "created"
           heap == [objs EXCEPT ![d.obj].dbChunkIndex = NextChunkIndex(@, ok)]
           nxt == LoopHead(heap, d.obj, d.sid)
       IN /\ objs' = nxt.objs
          /\ drains' = (drains \ {d}) \cup nxt.drains
          /\ Emit(IF ok
                  THEN <<Event("diagnostics_update", d.sid,
                               <<heap[d.obj].batchMs, heap[d.obj].lastGeminiLatency,
                                 Len(heap[d.obj].pendingBatches)>>),
                         Event("transcription_update", d.sid, <<d.text>>)>>
                  ELSE <<ErrorEvent(d.sid, SaveFailedMsg)>>)
    /\ Mark("created", d.sid)
    /\ UNCHANGED <<sessions, handlers, dbStatus, dbEndedAt, dbChunks, dbSummary,
                   transcriptionModel, now, nIngest, nCtl>>
    /\ UNCHANGED unitVars

\* The continuation after transcriptChunk.create: advance the index and emit,
\* or the catch block; then the loop head again.
CreateDone(d) ==
    /\ d \in drains /\ d.pc \in {"created", "failed"}
    /\ LET ok == d.pc = "created"
           heap == [objs EXCEPT ![d.obj].dbChunkIndex = NextChunkIndex(@, ok)]
           nxt == LoopHead(heap, d.obj, d.sid)
       IN /\ objs' = nxt.objs
          /\ drains' = (drains \ {d}) \cup nxt.drains
          /\ Emit(IF ok
                  THEN <<Event("transcription_update", d.sid, <<d.text>>),
                         Event("diagnostics_update", d.sid,
                               <<heap[d.obj].batchMs, heap[d.obj].lastGeminiLatency,
                                 Len(heap[d.obj].pendingBatches)>>)>>
                  ELSE <<ErrorEvent(d.sid, SaveFailedMsg)>>)
    /\ Mark("created", d.sid)
    /\ UNCHANGED <<sessions, handlers, dbStatus, dbEndedAt, dbChunks, dbSummary,
                   transcriptionModel, now, nIngest, nCtl>>
    /\ UNCHANGED unitVars

(***************************************************************************)
(* audio_chunk handler (synchronous; it ends by entering a drain).         *)
(***************************************************************************)
\* The fragments an audio_chunk event may carry.
Fragments == {<<nIngest + 1>>}

\* audio_chunk with the ring emptied by a flush.
AudioChunkClearsRing(s, buf) ==
    /\ s \in SessionIds /\ buf \in Fragments
    /\ Mark("audio_chunk", s)
    /\ Emit(<<>>)
    /\ IF sessions[s] = 0
       THEN UNCHANGED <<objs, drains, now, nIngest>>
       ELSE LET o == sessions[s]
                st == objs[o]
                ring1 == ringPush(st.ring, buf)
            IN /\ nIngest < caps.ingest
               /\ nIngest' = nIngest + 1
               /\ IF Flushes(st.accumulatedMs, st.batchMs)
                  THEN LET batch == [audio |-> BufferConcat(ringToArray(ring1)),
                                     timestamp |-> now + 1]
                           heap == [objs EXCEPT
                                      ![o].ring = createRingBuffer(RingCapacity),
                                      ![o].accumulatedMs =
                                          NextAccumulatedMs(st.accumulatedMs, st.batchMs),
                                      ![o].pendingBatches =
                                          Enqueue(st.pendingBatches, batch, st.maxPending)]
                           nxt == processPendingQueue(heap, sessions, s)
                       IN /\ objs' = nxt.objs
                          /\ drains' = drains \cup nxt.drains
                          /\ now' = now + 1
                  ELSE /\ objs' = [objs EXCEPT
                                      ![o].ring = ring1,
                                      ![o].accumulatedMs =
                                          NextAccumulatedMs(st.accumulatedMs, st.batchMs)]
                       /\ UNCHANGED <<drains, now>>
    /\ UNCHANGED <<sessions, handlers, dbStatus, dbEndedAt, dbChunks, dbSummary,
                   transcriptionModel, nCtl>>
    /\ UNCHANGED unitVars

\* audio_chunk reporting an error for a session that is not registered.
AudioChunkReportsUnknown(s, buf) ==
    /\ s \in SessionIds /\ buf \in Fragments
    /\ Mark("audio_chunk", s)
    /\ Emit(IF sessions[s] = 0 THEN <<ErrorEvent(s, "Session not found.")>> ELSE <<>>)
    /\ IF sessions[s] = 0
       THEN UNCHANGED <<objs, drains, now, nIngest>>
       ELSE LET o == sessions[s]
                st == objs[o]
                ring1 == ringPush(st.ring, buf)
            IN /\ nIngest < caps.ingest
               /\ nIngest' = nIngest + 1
               /\ IF Flushes(st.accumulatedMs, st.batchMs)
                  THEN LET batch == [audio |-> BufferConcat(ringToArray(ring1)),
                                     timestamp |-> now + 1]
                           heap == [objs EXCEPT
                                      ![o].ring = ring1,
                                      ![o].accumulatedMs =
                                          NextAccumulatedMs(st.accumulatedMs, st.batchMs),
                                      ![o].pendingBatches =
                                          Enqueue(st.pendingBatches, batch, st.maxPending)]
                           nxt == processPendingQueue(heap, sessions, s)
                       IN /\ objs' = nxt.objs
                          /\ drains' = drains \cup nxt.drains
                          /\ now' = now + 1
                  ELSE /\ objs' = [objs EXCEPT
                                      ![o].ring = ring1,
                                      ![o].accumulatedMs =
                                          NextAccumulatedMs(st.accumulatedMs, st.batchMs)]
                       /\ UNCHANGED <<drains, now>>
    /\ UNCHANGED <<sessions, handlers, dbStatus, dbEndedAt, dbChunks, dbSummary,
                   transcriptionModel, nCtl>>
    /\ UNCHANGED unitVars

AudioChunk(s, buf) ==
    /\ s \in SessionIds /\ buf \in Fragments
    /\ Mark("audio_chunk", s)
    /\ Emit(<<>>)
    /\ IF sessions[s] = 0
       THEN UNCHANGED <<objs, drains, now, nIngest>>
       ELSE LET o == sessions[s]
                st == objs[o]
                ring1 == ringPush(st.ring, buf)
            IN /\ nIngest < caps.ingest
               /\ nIngest' = nIngest + 1
               /\ IF Flushes(st.accumulatedMs, st.batchMs)
                  THEN LET batch == [audio |-> BufferConcat(ringToArray(ring1)),
                                     timestamp |-> now + 1]
                           heap == [objs EXCEPT
                                      ![o].ring = ring1,
                                      ![o].accumulatedMs =
                                          NextAccumulatedMs(st.accumulatedMs, st.batchMs),
                                      ![o].pendingBatches =
                                          Enqueue(st.pendingBatches, batch, st.maxPending)]
                           nxt == processPendingQueue(heap, sessions, s)
                       IN /\ objs' = nxt.objs
                          /\ drains' = drains \cup nxt.drains
                          /\ now' = now + 1
                  ELSE /\ objs' = [objs EXCEPT
                                      ![o].ring = ring1,
                                      ![o].accumulatedMs =
                                          NextAccumulatedMs(st.accumulatedMs, st.batchMs)]
                       /\ UNCHANGED <<drains, now>>
    /\ UNCHANGED <<sessions, handlers, dbStatus, dbEndedAt, dbChunks, dbSummary,
                   transcriptionModel, nCtl>>
    /\ UNCHANGED unitVars


(***************************************************************************)
(* Suspended start / resume / stop handlers.                               *)
(***************************************************************************)
\* `handlers` is a bag: two invocations suspended at the same await with the
\* same locals are two handlers.
Suspended == BagToSet(handlers)
With(hs, h) == hs (+) SetToBag({h})
Without(hs, h) == hs (-) SetToBag({h})

Handler(op, sid, userId, mode, pc) ==
    [op |-> op, sid |-> sid, userId |-> userId, mode |-> mode, pc |-> pc,
     chunkCount |-> 0, fullTranscript |-> <<>>, summary |-> NULL,
     existingSummary |-> FALSE]

CtlFrame == UNCHANGED <<drains, dbChunks, transcriptionModel, now, nIngest>>

(***************************************************************************)
(* start_session handler.                                                  *)
(***************************************************************************)
IdsRequiredMsg == "sessionId and userId are required."
UserNotFoundMsg == "User not found. Cannot start session."
StartFailedMsg == "Failed to start session."

\* The status of a MeetingSession row created without one (the store's
\* default).
DefaultSessionStatus == "RECORDING"

\* prisma.user.findUnique({ where: { id: userId } }) finds a row.
UserExistsAlways(u) == TRUE

UserExists(u) == u \in UserIds

\* start_session writing the session row whether or not the id has one.
StartSessionUpsert(s, u, m, ok) ==
    /\ nCtl < caps.ctl
    /\ nCtl' = nCtl + 1
    /\ MarkUser("start_session", s, u)
    /\ IF s = "" \/ u = ""
       THEN /\ Emit(<<ErrorEvent(s, IdsRequiredMsg)>>)
            /\ UNCHANGED <<handlers, dbStatus, dbEndedAt>>
       ELSE IF ok /\ ~UserExists(u)
       THEN /\ Emit(<<ErrorEvent(s, UserNotFoundMsg)>>)
            /\ UNCHANGED <<handlers, dbStatus, dbEndedAt>>
       ELSE IF ok
       THEN /\ dbStatus' = [dbStatus EXCEPT ![s] = DefaultSessionStatus]
            /\ UNCHANGED dbEndedAt
            /\ handlers' = With(handlers, Handler("start", s, u, m, "set"))
            /\ Emit(<<>>)
       ELSE /\ Emit(<<ErrorEvent(s, StartFailedMsg)>>)
            /\ UNCHANGED <<handlers, dbStatus, dbEndedAt>>
    /\ UNCHANGED <<sessions, objs, dbSummary>>
    /\ CtlFrame
    /\ UNCHANGED unitVars

\* The event arrives: validation, user.findUnique, and the store executing
\* meetingSession.create (the User table never changes, so the lookup and
\* the create are one step).
StartSession(s, u, m, ok) ==
    /\ nCtl < caps.ctl
    /\ nCtl' = nCtl + 1
    /\ MarkUser("start_session", s, u)
    /\ IF s = "" \/ u = ""
       THEN /\ Emit(<<ErrorEvent(s, IdsRequiredMsg)>>)
            /\ UNCHANGED <<handlers, dbStatus, dbEndedAt>>
       ELSE IF ok /\ ~UserExists(u)
       THEN /\ Emit(<<ErrorEvent(s, UserNotFoundMsg)>>)
            /\ UNCHANGED <<handlers, dbStatus, dbEndedAt>>
       ELSE IF ok /\ dbStatus[s] = "NONE"
       THEN /\ dbStatus' = [dbStatus EXCEPT ![s] = DefaultSessionStatus]
            /\ UNCHANGED dbEndedAt
            /\ handlers' = With(handlers, Handler("start", s, u, m, "set"))
            /\ Emit(<<>>)
       ELSE /\ Emit(<<ErrorEvent(s, StartFailedMsg)>>)
            /\ UNCHANGED <<handlers, dbStatus, dbEndedAt>>
    /\ UNCHANGED <<sessions, objs, dbSummary>>
    /\ CtlFrame
    /\ UNCHANGED unitVars

\* sessions.set with one state shared by every session id.
StartSetSingleState(h) ==
    /\ h \in Suspended /\ h.op = "start" /\ h.pc = "set"
    /\ objs' = Append(objs, NewSessionState(h.userId, h.mode, 0))
    /\ sessions' = [s \in SessionIds |-> Len(objs) + 1]
    /\ handlers' = Without(handlers, h)
    /\ Emit(<<Event("session_status", h.sid, <<"recording">>)>>)
    /\ Mark("start_set", h.sid)
    /\ UNCHANGED <<dbStatus, dbEndedAt, dbSummary, nCtl>>
    /\ CtlFrame
    /\ UNCHANGED unitVars

\* The continuation after meetingSession.create: sessions.set and the status event.
StartSet(h) ==
    /\ h \in Suspended /\ h.op = "start" /\ h.pc = "set"
    /\ objs' = Append(objs, NewSessionState(h.userId, h.mode, 0))
    /\ sessions' = [sessions EXCEPT ![h.sid] = Len(objs) + 1]
    /\ handlers' = Without(handlers, h)
    /\ Emit(<<Event("session_status", h.sid, <<"recording">>)>>)
    /\ Mark("start_set", h.sid)
    /\ UNCHANGED <<dbStatus, dbEndedAt, dbSummary, nCtl>>
    /\ CtlFrame
    /\ UNCHANGED unitVars

(***************************************************************************)
(* resume_session handler.                                                 *)
(***************************************************************************)
NotRecordingMsg == "Cannot resume: session is not in RECORDING state."
ResumeNotFoundMsg == "Session not found. Cannot resume."
ResumeFailedMsg == "Failed to resume session."
StopNotFoundMsg == "Session not found in database."
StopFailedMsg == "Failed to stop session and generate summary."

\* meetingSession.findUnique({ where: { id: sessionId } }) finds a row of
\* this status: `if (!dbSession)` rejects.
SessionFoundAlways(status) == TRUE

SessionFound(status) == status # "NONE"

\* The status check of resume: `dbSession.status !== SessionStatus.RECORDING`
\* rejects.
ResumeAllowedUnlessCompleted(status) == status # "COMPLETED"

ResumeAllowed(status) == status = "RECORDING"

\* The event arrives and the store executes meetingSession.findUnique.
ResumeSession(s, u, m, ok) ==
    /\ nCtl < caps.ctl
    /\ nCtl' = nCtl + 1
    /\ s \in SessionIds
    /\ Mark("resume_session", s)
    /\ IF ~ok
       THEN /\ Emit(<<ErrorEvent(s, ResumeFailedMsg)>>)
            /\ UNCHANGED handlers
       ELSE IF ~SessionFound(dbStatus[s])
       THEN /\ Emit(<<ErrorEvent(s, ResumeNotFoundMsg)>>)
            /\ UNCHANGED handlers
       ELSE IF ~ResumeAllowed(dbStatus[s])
       THEN /\ Emit(<<ErrorEvent(s, NotRecordingMsg)>>)
            /\ UNCHANGED handlers
       ELSE /\ handlers' = With(handlers, Handler("resume", s, u, m, "count"))
            /\ Emit(<<>>)
    /\ UNCHANGED <<sessions, objs, dbStatus, dbEndedAt, dbSummary>>
    /\ CtlFrame
    /\ UNCHANGED unitVars

\* The store executes transcriptChunk.count.
ResumeCount(h, ok) ==
    /\ h \in Suspended /\ h.op = "resume" /\ h.pc = "count"
    /\ Mark("resume_count", h.sid)
    /\ IF ok
       THEN /\ handlers' = With(Without(handlers, h),
                                [h EXCEPT !.pc = "set",
                                          !.chunkCount = Len(dbChunks[h.sid])])
            /\ Emit(<<>>)
       ELSE /\ handlers' = Without(handlers, h)
            /\ Emit(<<ErrorEvent(h.sid, ResumeFailedMsg)>>)
    /\ UNCHANGED <<sessions, objs, dbStatus, dbEndedAt, dbSummary, nCtl>>
    /\ CtlFrame
    /\ UNCHANGED unitVars

\* The continuation after the count: sessions.set and the resumed event.
ResumeSet(h) ==
    /\ h \in Suspended /\ h.op = "resume" /\ h.pc = "set"
    /\ objs' = Append(objs, NewSessionState(h.userId, h.mode, h.chunkCount))
    /\ sessions' = [sessions EXCEPT ![h.sid] = Len(objs) + 1]
    /\ handlers' = Without(handlers, h)
    /\ Emit(<<Event("session_resumed", h.sid, <<>>)>>)
    /\ Mark("resume_set", h.sid)
    /\ UNCHANGED <<dbStatus, dbEndedAt, dbSummary, nCtl>>
    /\ CtlFrame
    /\ UNCHANGED unitVars

(***************************************************************************)
(* tab_audio_lost handler.                                                 *)
(***************************************************************************)
\* tab_audio_lost also switching the registered session to the microphone.
TabAudioLostSwitchesMode(s) ==
    /\ nCtl < caps.ctl
    /\ nCtl' = nCtl + 1
    /\ Emit(<<Event("audio_fallback", s, <<"mic">>)>>)
    /\ Mark("tab_audio_lost", s)
    /\ objs' = [i \in 1..Len(objs) |->
                   IF i = sessions[s] THEN [objs[i] EXCEPT !.mode = "mic"] ELSE objs[i]]
    /\ UNCHANGED <<sessions, handlers, dbStatus, dbEndedAt, dbSummary>>
    /\ CtlFrame
    /\ UNCHANGED unitVars

TabAudioLost(s) ==
    /\ nCtl < caps.ctl
    /\ nCtl' = nCtl + 1
    /\ Emit(<<Event("audio_fallback", s, <<"mic">>)>>)
    /\ Mark("tab_audio_lost", s)
    /\ UNCHANGED <<sessions, objs, handlers, dbStatus, dbEndedAt, dbSummary>>
    /\ CtlFrame
    /\ UNCHANGED unitVars


(***************************************************************************)
(* stop_session handler.                                                   *)
(***************************************************************************)
\* findMany without its orderBy: the rows as the store holds them.
OrderAsStored(rows) == rows

\* findMany(... orderBy: { index: "asc" }): the rows by ascending index.
RECURSIVE OrderByIndex(_)
OrderByIndex(rows) ==
    IF rows = <<>> THEN <<>>
    ELSE LET k == CHOOSE i \in 1..Len(rows) :
                      \A j \in 1..Len(rows) :
                          \/ rows[i].index < rows[j].index
                          \/ (rows[i].index = rows[j].index /\ i <= j)
             rest == [j \in 1..(Len(rows) - 1) |->
                          IF j < k THEN rows[j] ELSE rows[j + 1]]
         IN <<rows[k]>> \o OrderByIndex(rest)

\* chunks.map((c) => c.text).join(" ") with a text put in for no chunks.
FullTranscriptOrPlaceholder(rows) ==
    IF rows = <<>> THEN <<"(no transcript)">> ELSE [i \in 1..Len(rows) |-> rows[i].text]

\* chunks.map((c) => c.text); join(" ") keeps the texts in this order.
FullTranscript(rows) == [i \in 1..Len(rows) |-> rows[i].text]

\* summarizeTranscript with its catch returning the text of the unconfigured
\* case.
SummaryResultsOneFallback ==
    IF transcriptionModel THEN {"summary", "Summary unavailable."}
    ELSE {"Summary unavailable."}

\* What summarizeTranscript resolves to.
SummaryResults ==
    IF transcriptionModel THEN {"summary", "Summary generation failed."}
    ELSE {"Summary unavailable."}

\* The catch of stop_session with the emit left out.
StopFailSilent(h) ==
    /\ handlers' = Without(handlers, h)
    /\ Emit(<<>>)

StopFail(h) ==
    /\ handlers' = Without(handlers, h)
    /\ Emit(<<ErrorEvent(h.sid, StopFailedMsg)>>)

\* stop_session refusing a session that has no entry in the registry.
StopSessionNeedsState(s, ok) ==
    /\ nCtl < caps.ctl
    /\ nCtl' = nCtl + 1
    /\ s \in SessionIds
    /\ Mark("stop_session", s)
    /\ IF ~ok
       THEN /\ Emit(<<ErrorEvent(s, StopFailedMsg)>>)
            /\ UNCHANGED handlers
       ELSE IF ~SessionFound(dbStatus[s]) \/ sessions[s] = 0
       THEN /\ Emit(<<ErrorEvent(s, StopNotFoundMsg)>>)
            /\ UNCHANGED handlers
       ELSE /\ handlers' = With(handlers, Handler("stop", s, "", "", "processing"))
            /\ Emit(<<>>)
    /\ UNCHANGED <<sessions, objs, dbStatus, dbEndedAt, dbSummary>>
    /\ CtlFrame
    /\ UNCHANGED unitVars

\* The event arrives and the store executes meetingSession.findUnique.
StopSession(s, ok) ==
    /\ nCtl < caps.ctl
    /\ nCtl' = nCtl + 1
    /\ s \in SessionIds
    /\ Mark("stop_session", s)
    /\ IF ~ok
       THEN /\ Emit(<<ErrorEvent(s, StopFailedMsg)>>)
            /\ UNCHANGED handlers
       ELSE IF ~SessionFound(dbStatus[s])
       THEN /\ Emit(<<ErrorEvent(s, StopNotFoundMsg)>>)
            /\ UNCHANGED handlers
       ELSE /\ handlers' = With(handlers, Handler("stop", s, "", "", "processing"))
            /\ Emit(<<>>)
    /\ UNCHANGED <<sessions, objs, dbStatus, dbEndedAt, dbSummary>>
    /\ CtlFrame
    /\ UNCHANGED unitVars

\* The store executes the update to PROCESSING (with endedAt).
StopProcessing(h, ok) ==
    /\ h \in Suspended /\ h.op = "stop" /\ h.pc = "processing"
    /\ Mark("stop_processing", h.sid)
    /\ IF ok
       THEN /\ dbStatus' = [dbStatus EXCEPT ![h.sid] = "PROCESSING"]
            /\ dbEndedAt' = [dbEndedAt EXCEPT ![h.sid] = TRUE]
            /\ handlers' = With(Without(handlers, h), [h EXCEPT !.pc = "findMany"])
            /\ Emit(<<>>)
       ELSE /\ StopFail(h)
            /\ UNCHANGED <<dbStatus, dbEndedAt>>
    /\ UNCHANGED <<sessions, objs, dbSummary, nCtl>>
    /\ CtlFrame
    /\ UNCHANGED unitVars

\* The read of the chunks held back until the session has no active drain.
StopFindManyAfterDrains(h, ok) ==
    /\ h \in Suspended /\ h.op = "stop" /\ h.pc = "findMany"
    /\ {d \in drains : d.sid = h.sid} = {}
    /\ Mark("stop_findMany", h.sid)
    /\ IF ok
       THEN /\ handlers' = With(Without(handlers, h),
                                [h EXCEPT !.pc = "summarize",
                                          !.fullTranscript =
                                              FullTranscript(OrderByIndex(dbChunks[h.sid]))])
            /\ Emit(<<>>)
       ELSE StopFail(h)
    /\ UNCHANGED <<sessions, objs, dbStatus, dbEndedAt, dbSummary, nCtl>>
    /\ CtlFrame
    /\ UNCHANGED unitVars

\* The store executes transcriptChunk.findMany; summarizeTranscript is called.
StopFindMany(h, ok) ==
    /\ h \in Suspended /\ h.op = "stop" /\ h.pc = "findMany"
    /\ Mark("stop_findMany", h.sid)
    /\ IF ok
       THEN /\ handlers' = With(Without(handlers, h),
                                [h EXCEPT !.pc = "summarize",
                                          !.fullTranscript =
                                              FullTranscript(OrderByIndex(dbChunks[h.sid]))])
            /\ Emit(<<>>)
       ELSE StopFail(h)
    /\ UNCHANGED <<sessions, objs, dbStatus, dbEndedAt, dbSummary, nCtl>>
    /\ CtlFrame
    /\ UNCHANGED unitVars

\* summarizeTranscript has resolved with r and the store executes
\* meetingSummary.findUnique.
StopFindSummary(h, r, ok) ==
    /\ h \in Suspended /\ h.op = "stop" /\ h.pc = "summarize"
    /\ r \in SummaryResults
    /\ Mark("stop_findSummary", h.sid)
    /\ IF ok
       THEN /\ handlers' = With(Without(handlers, h),
                                [h EXCEPT !.pc = "upsert", !.summary = r,
                                          !.existingSummary =
                                              (Len(dbSummary[h.sid]) > 0)])
            /\ Emit(<<>>)
       ELSE StopFail(h)
    /\ UNCHANGED <<sessions, objs, dbStatus, dbEndedAt, dbSummary, nCtl>>
    /\ CtlFrame
    /\ UNCHANGED unitVars

\* meetingSessionId is a unique key of MeetingSummary (findUnique and update
\* address the row by it): a create succeeds only if the session has no row.
SummaryKeyFree(sid) == Len(dbSummary[sid]) = 0

\* `if (!existingSummary) create else update`: the store call the handler makes.
SummaryCallAlwaysCreate(existing) == "create"

SummaryCall(existing) == IF existing THEN "update" ELSE "create"

\* The store executes meetingSummary.create or meetingSummary.update.
StopUpsert(h, ok) ==
    /\ h \in Suspended /\ h.op = "stop" /\ h.pc = "upsert"
    /\ Mark(IF SummaryCall(h.existingSummary) = "create"
            THEN "stop_create" ELSE "stop_update", h.sid)
    /\ IF ok /\ SummaryCall(h.existingSummary) = "create" /\ SummaryKeyFree(h.sid)
       THEN /\ dbSummary' = [dbSummary EXCEPT ![h.sid] = <<h.summary>>]
            /\ handlers' = With(Without(handlers, h), [h EXCEPT !.pc = "completed"])
            /\ Emit(<<>>)
       ELSE IF ok /\ SummaryCall(h.existingSummary) = "update"
                  /\ ~SummaryKeyFree(h.sid)
       THEN /\ dbSummary' = [dbSummary EXCEPT ![h.sid] =
                                 [i \in 1..Len(@) |-> h.summary]]
            /\ handlers' = With(Without(handlers, h), [h EXCEPT !.pc = "completed"])
            /\ Emit(<<>>)
       ELSE /\ StopFail(h)
            /\ UNCHANGED dbSummary
    /\ UNCHANGED <<sessions, objs, dbStatus, dbEndedAt, nCtl>>
    /\ CtlFrame
    /\ UNCHANGED unitVars

\* The store executes the update to COMPLETED.
StopCompleted(h, ok) ==
    /\ h \in Suspended /\ h.op = "stop" /\ h.pc = "completed"
    /\ Mark("stop_completed", h.sid)
    /\ IF ok
       THEN /\ dbStatus' = [dbStatus EXCEPT ![h.sid] = "COMPLETED"]
            /\ UNCHANGED dbEndedAt
            /\ handlers' = With(Without(handlers, h), [h EXCEPT !.pc = "finish"])
            /\ Emit(<<>>)
       ELSE /\ StopFail(h)
            /\ UNCHANGED <<dbStatus, dbEndedAt>>
    /\ UNCHANGED <<sessions, objs, dbSummary, nCtl>>
    /\ CtlFrame
    /\ UNCHANGED unitVars

\* The continuation of stop_session with sessions.delete left out.
StopFinishKeepsState(h) ==
    /\ h \in Suspended /\ h.op = "stop" /\ h.pc = "finish"
    /\ Mark("stop_finish", h.sid)
    /\ Emit(<<Event("session_completed", h.sid, <<h.fullTranscript, h.summary>>)>>)
    /\ handlers' = Without(handlers, h)
    /\ UNCHANGED <<sessions, objs, dbStatus, dbEndedAt, dbSummary, nCtl>>
    /\ CtlFrame
    /\ UNCHANGED unitVars

\* The continuation: the completion event and sessions.delete.
StopFinish(h) ==
    /\ h \in Suspended /\ h.op = "stop" /\ h.pc = "finish"
    /\ Mark("stop_finish", h.sid)
    /\ Emit(<<Event("session_completed", h.sid, <<h.fullTranscript, h.summary>>)>>)
    /\ sessions' = [sessions EXCEPT ![h.sid] = 0]
    /\ handlers' = Without(handlers, h)
    /\ UNCHANGED <<objs, dbStatus, dbEndedAt, dbSummary, nCtl>>
    /\ CtlFrame
    /\ UNCHANGED unitVars

(***************************************************************************)
(* The server: one connected client driving the sessions of SpecSessions.  *)
(***************************************************************************)
SpecSessions == {"s1"}
SpecModes == {"tab"}
StartUsers == UserIds \cup {"u2", ""}

Next ==
    \/ \E s \in SpecSessions \cup {""}, u \in StartUsers, m \in SpecModes, ok \in BOOLEAN :
           StartSession(s, u, m, ok)
    \/ \E h \in Suspended : StartSet(h)
    \/ \E s \in SpecSessions, u \in UserIds, m \in SpecModes, ok \in BOOLEAN :
           ResumeSession(s, u, m, ok)
    \/ \E h \in Suspended, ok \in BOOLEAN : ResumeCount(h, ok)
    \/ \E h \in Suspended : ResumeSet(h)
    \/ \E s \in SpecSessions, buf \in Fragments : AudioChunk(s, buf)
    \/ \E d \in drains, r \in TranscribeResults, latency \in Latencies :
           TranscribeDone(d, r, latency)
    \/ \E d \in drains, ok \in BOOLEAN : CreateExec(d, ok)
    \/ \E d \in drains : CreateDone(d)
    \/ \E s \in SpecSessions : TabAudioLost(s)
    \/ \E s \in SpecSessions, ok \in BOOLEAN : StopSession(s, ok)
    \/ \E h \in Suspended, ok \in BOOLEAN : StopProcessing(h, ok)
    \/ \E h \in Suspended, ok \in BOOLEAN : StopFindMany(h, ok)
    \/ \E h \in Suspended, r \in SummaryResults, ok \in BOOLEAN : StopFindSummary(h, r, ok)
    \/ \E h \in Suspended, ok \in BOOLEAN : StopUpsert(h, ok)
    \/ \E h \in Suspended, ok \in BOOLEAN : StopCompleted(h, ok)
    \/ \E h \in Suspended : StopFinish(h)

Spec == Init /\ [][Next]_vars

\* The same server with its outbound events recorded.
EventInit == ProgCaps /\ observe = TRUE /\ ProgState /\ RingInit /\ QueueInit /\ AdaptInit

EventSpec == EventInit /\ [][Next]_vars

\* The server over a session's life: few fragments, more control events,
\* outbound events recorded.
LifeInit ==
    /\ caps = [ingest |-> MaxLifeIngest, ctl |-> MaxLifeCtl]
    /\ observe = TRUE
    /\ ProgState /\ RingInit /\ QueueInit /\ AdaptInit

LifeSpec == LifeInit /\ [][Next]_vars

\* The server up to a session's first batch: few fragments, few control
\* events, outbound events recorded.
FirstBatchInit ==
    /\ caps = [ingest |-> MaxLifeIngest, ctl |-> MaxCtl]
    /\ observe = TRUE
    /\ ProgState /\ RingInit /\ QueueInit /\ AdaptInit

FirstBatchSpec == FirstBatchInit /\ [][Next]_vars

\* The server started again over a store that may already hold the session:
\* the registry is empty, the store has either no row for the session or a
\* RECORDING session with two chunks, which the store keeps in no particular
\* order.
StoredChunks ==
    <<[index |-> 1, text |-> Unintelligible, batch |-> 0],
      [index |-> 0, text |-> "hello", batch |-> 0]>>

RestartInit ==
    /\ caps = [ingest |-> MaxLifeIngest, ctl |-> MaxCtl]
    /\ observe = TRUE
    /\ sessions = [s \in SessionIds |-> 0]
    /\ objs = <<>>
    /\ drains = {}
    /\ handlers = EmptyBag
    /\ \E stored \in BOOLEAN :
           /\ dbStatus = [s \in SessionIds |->
                             IF stored /\ s \in SpecSessions THEN "RECORDING" ELSE "NONE"]
           /\ dbChunks = [s \in SessionIds |->
                             IF stored /\ s \in SpecSessions THEN StoredChunks ELSE <<>>]
    /\ dbEndedAt = [s \in SessionIds |-> FALSE]
    /\ dbSummary = [s \in SessionIds |-> <<>>]
    /\ transcriptionModel \in BOOLEAN
    /\ now = 0 /\ nIngest = 0 /\ nCtl = 0
    /\ out = <<>>
    /\ last = [op |-> "init", sid |-> "", userId |-> ""]
    /\ RingInit /\ QueueInit /\ AdaptInit

RestartSpec == RestartInit /\ [][Next]_vars

\* The fragments that fill a fresh session's first batch.
FirstBatchFragments == DefaultBatchMs \div FragmentMs

\* The client of the two-session server streams one session at a time: the
\* fragments of a first batch go to s1, the later ones to s2.
PairTurn(s) == IF nIngest < FirstBatchFragments THEN s = "s1" ELSE s = "s2"

\* The server with one client driving two sessions.
PairNext ==
    \/ \E s \in SessionIds \cup {""}, u \in StartUsers, m \in SpecModes, ok \in BOOLEAN :
           StartSession(s, u, m, ok)
    \/ \E h \in Suspended : StartSet(h)
    \/ \E s \in SessionIds, u \in UserIds, m \in SpecModes, ok \in BOOLEAN :
           ResumeSession(s, u, m, ok)
    \/ \E h \in Suspended, ok \in BOOLEAN : ResumeCount(h, ok)
    \/ \E h \in Suspended : ResumeSet(h)
    \/ \E s \in SessionIds, buf \in Fragments : PairTurn(s) /\ AudioChunk(s, buf)
    \/ \E d \in drains, r \in TranscribeResults, latency \in Latencies :
           TranscribeDone(d, r, latency)
    \/ \E d \in drains, ok \in BOOLEAN : CreateExec(d, ok)
    \/ \E d \in drains : CreateDone(d)
    \/ \E s \in SessionIds : TabAudioLost(s)
    \/ \E s \in SessionIds, ok \in BOOLEAN : StopSession(s, ok)
    \/ \E h \in Suspended, ok \in BOOLEAN : StopProcessing(h, ok)
    \/ \E h \in Suspended, ok \in BOOLEAN : StopFindMany(h, ok)
    \/ \E h \in Suspended, r \in SummaryResults, ok \in BOOLEAN : StopFindSummary(h, r, ok)
    \/ \E h \in Suspended, ok \in BOOLEAN : StopUpsert(h, ok)
    \/ \E h \in Suspended, ok \in BOOLEAN : StopCompleted(h, ok)
    \/ \E h \in Suspended : StopFinish(h)

PairInit ==
    /\ caps = [ingest |-> MaxIngest, ctl |-> MaxLifeCtl]
    /\ observe = TRUE
    /\ ProgState /\ RingInit /\ QueueInit /\ AdaptInit

PairSpec == PairInit /\ [][PairNext]_vars

\* The server while one client starts a session and streams audio to it:
\* start_session, audio_chunk and the drains.
StreamNext ==
    \/ \E s \in SpecSessions \cup {""}, u \in StartUsers, m \in SpecModes, ok \in BOOLEAN :
           StartSession(s, u, m, ok)
    \/ \E h \in Suspended : StartSet(h)
    \/ \E s \in SpecSessions, buf \in Fragments : AudioChunk(s, buf)
    \/ \E d \in drains, r \in TranscribeResults, latency \in Latencies :
           TranscribeDone(d, r, latency)
    \/ \E d \in drains, ok \in BOOLEAN : CreateExec(d, ok)
    \/ \E d \in drains : CreateDone(d)

StreamInit == ProgInit /\ RingInit /\ QueueInit /\ AdaptInit

StreamSpec == StreamInit /\ [][StreamNext]_vars

\* The same streaming server with its outbound events recorded, in which
\* every transcribeChunk call and every store call returns and every resolved
\* await is resumed by the event loop.
StreamFairInit == ProgCaps /\ observe = TRUE /\ ProgState /\ RingInit /\ QueueInit /\ AdaptInit

StreamFairness ==
    /\ WF_vars(\E d \in drains, r \in TranscribeResults, latency \in Latencies :
                   TranscribeDone(d, r, latency))
    /\ WF_vars(\E d \in drains, ok \in BOOLEAN : CreateExec(d, ok))
    /\ WF_vars(\E d \in drains : CreateDone(d))

StreamFairSpec == StreamFairInit /\ [][StreamNext]_vars /\ StreamFairness

\* The streaming server with its outbound events recorded.
StreamEventSpec == StreamFairInit /\ [][StreamNext]_vars

(***************************************************************************)
(* The components on their own: a ring buffer under arbitrary pushes, a    *)
(* pending queue under arbitrary enqueues and shifts, and a threshold      *)
(* under arbitrary fragments and latency samples.                          *)
(***************************************************************************)
UnitFragments == {<<>>, <<1>>, <<2>>}
\* Latencies around the two watermarks.
UnitLatencies == {0, 7999, 8000, 8001, 19999, 20000, 20001, 60000}

UnitPush(f) ==
    /\ Len(upushed) < MaxUnitPush
    /\ f \in UnitFragments
    /\ uring' = ringPush(uring, f)
    /\ upushed' = Append(upushed, f)
    /\ UNCHANGED <<progVars, queueVars, adaptVars>>

RingNext == \E f \in UnitFragments : UnitPush(f)

RingSpecInit ==
    /\ ProgInit /\ QueueInit /\ AdaptInit
    /\ \E size \in 1..MaxUnitCap : uring = createRingBuffer(size)
    /\ upushed = <<>>

RingSpec == RingSpecInit /\ [][RingNext]_vars

\* The batch enqueued as the n-th.
UnitBatch(n, f) == [audio |-> f, timestamp |-> n]

UnitEnqueue(f) ==
    /\ uenq < MaxUnitEnq
    /\ f \in UnitFragments
    /\ uqueue' = Enqueue(uqueue, UnitBatch(uenq + 1, f), umaxPending)
    /\ uenq' = uenq + 1
    /\ UNCHANGED <<umaxPending, ushifted, utaken>>
    /\ UNCHANGED <<progVars, ringVars, adaptVars>>

\* The loop head with the batch left at the head of the queue.
UnitShiftPeek ==
    /\ Len(uqueue) > 0
    /\ uqueue' = uqueue
    /\ ushifted' = ushifted + 1
    /\ utaken' = Append(utaken, Head(uqueue).timestamp)
    /\ UNCHANGED <<umaxPending, uenq>>
    /\ UNCHANGED <<progVars, ringVars, adaptVars>>

\* The loop head of a drain: session.pendingBatches.shift() and the call of
\* transcribeChunk with the batch taken.
UnitShift ==
    /\ Len(uqueue) > 0
    /\ uqueue' = Tail(uqueue)
    /\ ushifted' = ushifted + 1
    /\ utaken' = Append(utaken, Head(uqueue).timestamp)
    /\ UNCHANGED <<umaxPending, uenq>>
    /\ UNCHANGED <<progVars, ringVars, adaptVars>>

QueueNext ==
    \/ \E f \in UnitFragments : UnitEnqueue(f)
    \/ UnitShift

QueueSpecInit ==
    /\ ProgInit /\ RingInit /\ AdaptInit
    /\ uqueue = <<>> /\ uenq = 0 /\ ushifted = 0 /\ utaken = <<>>
    /\ umaxPending \in 1..DefaultMaxPending

QueueSpec == QueueSpecInit /\ [][QueueNext]_vars

\* One fragment arrives: accumulatedMs advances, or resets on a flush.
UnitAccumulate ==
    /\ uaccMs' = NextAccumulatedMs(uaccMs, ubatchMs)
    /\ ulast' = "accumulate"
    /\ uprevBatchMs' = ubatchMs
    /\ UNCHANGED <<ubatchMs, ulatency>>
    /\ UNCHANGED <<progVars, ringVars, queueVars>>

\* One transcription call completes after `latency` ms.
UnitSample(latency) ==
    /\ latency \in UnitLatencies
    /\ ulatency' = latency
    /\ ubatchMs' = AdaptBatchMs(ubatchMs, latency)
    /\ uprevBatchMs' = ubatchMs
    /\ ulast' = "sample"
    /\ UNCHANGED uaccMs
    /\ UNCHANGED <<progVars, ringVars, queueVars>>

AdaptNext ==
    \/ UnitAccumulate
    \/ \E latency \in UnitLatencies : UnitSample(latency)

AdaptSpecInit == ProgInit /\ RingInit /\ QueueInit /\ AdaptInit

AdaptSpec == AdaptSpecInit /\ [][AdaptNext]_vars


(***************************************************************************)
(* Properties.                                                             *)
(***************************************************************************)
DrainsOf(s) == {d \in drains : d.sid = s}

\* C1: at most one processPendingQueue activation is active per session at
\* any time, hence at most one transcription call per session is outstanding.
C1_AtMostOneDrain ==
    \A s \in SessionIds :
        /\ Cardinality(DrainsOf(s)) <= 1
        /\ Cardinality({d \in DrainsOf(s) : d.pc = "transcribe"}) <= 1

\* C2: the indices of a session's TranscriptChunk rows are exactly 0,1,2,...
\* in append order: none skipped, none used twice.
C2_ChunkIndicesGapless ==
    \A s \in SessionIds :
        \A i \in 1..Len(dbChunks[s]) : dbChunks[s][i].index = i - 1

\* C2 witness: chunks were appended on both sides of a resume.
C2_Witness ==
    /\ Len(objs) = 2
    /\ Len(dbChunks["s1"]) = 2
    /\ objs[1].dbChunkIndex = 1
    /\ objs[2].dbChunkIndex = 2

\* C3: chunks are persisted in the order their batches were enqueued: of two
\* chunks of a session, the one whose batch was enqueued first has the
\* smaller index.
C3_EnqueueOrderIsIndexOrder ==
    \A s \in SessionIds :
        \A i, j \in 1..Len(dbChunks[s]) :
            dbChunks[s][i].batch < dbChunks[s][j].batch
                => dbChunks[s][i].index < dbChunks[s][j].index

\* C4: the pending queue never holds more than its configured maximum,
\* whatever the sequence of enqueues and shifts.
C4_QueueBounded == Len(uqueue) <= umaxPending

\* C4 witness: the queue is full after more enqueues than it can hold.
C4_Witness == Len(uqueue) = umaxPending /\ uenq - ushifted > umaxPending

QueueTimestamps == [i \in 1..Len(uqueue) |-> uqueue[i].timestamp]

\* C5: an enqueue into a full queue evicts exactly the oldest entry, keeps the
\* others in order and puts the new batch last; with M = 3, enqueuing batches
\* 1,2,3,4 without draining leaves batches 2,3,4.
C5_DropOldest ==
    /\ [][(uenq' = uenq + 1 /\ Len(uqueue) = umaxPending)
            => /\ Len(uqueue') = umaxPending
               /\ SubSeq(uqueue', 1, umaxPending - 1) = Tail(uqueue)
               /\ uqueue'[umaxPending].timestamp = uenq + 1]_vars
    /\ []((umaxPending = 3 /\ ushifted = 0 /\ uenq = 4)
            => QueueTimestamps = <<2, 3, 4>>)

\* C5 witness: four batches enqueued into a queue of three, none shifted.
C5_Witness == umaxPending = 3 /\ ushifted = 0 /\ uenq = 4 /\ Len(uqueue) = 3

\* C6: the threshold stays within [15000, 45000] and every change made by a
\* latency sample is by exactly +5000 or -5000.
C6_ThresholdBounded ==
    /\ ubatchMs >= 15000 /\ ubatchMs <= 45000
    /\ ubatchMs # uprevBatchMs
         => (ubatchMs = uprevBatchMs + 5000 \/ ubatchMs = uprevBatchMs - 5000)

\* C6 witness: a high-latency sample arrived at the ceiling.
C6_Witness ==
    ulast = "sample" /\ uprevBatchMs = 45000 /\ ubatchMs = 45000 /\ ulatency > 20000

\* C7: after each transcription call the threshold is: +5000 if the latency
\* is above 20000 and the threshold below 45000; else -5000 if the latency is
\* below 8000 and the threshold above 15000; else unchanged.
C7_ThresholdUpdate ==
    ulast = "sample" =>
        ubatchMs = IF ulatency > 20000 /\ uprevBatchMs < 45000
                   THEN uprevBatchMs + 5000
                   ELSE IF ulatency < 8000 /\ uprevBatchMs > 15000
                   THEN uprevBatchMs - 5000
                   ELSE uprevBatchMs

\* C7 witness: a low-latency sample arrived at the floor and left it there.
C7_Witness ==
    ulast = "sample" /\ uprevBatchMs = 15000 /\ ubatchMs = 15000 /\ ulatency < 8000

\* The step is the continuation of a transcription call (a latency sample).
IsSampleStep == \E d \in drains : d.pc = "transcribe" /\ d \notin drains'

\* The suspended handler h takes the step (one copy of it leaves the bag).
Resumed(h) == CopiesIn(h, handlers') < CopiesIn(h, handlers)

\* The step is the `sessions.set` of a start or of a resume.
IsSetStep == \E h \in Suspended : h.pc = "set" /\ Resumed(h)

\* C8 as stated: no step other than a latency sample changes the threshold
\* of a session that is in the registry before and after the step.
C8_ThresholdFrame ==
    [][\A s \in SessionIds :
          (sessions[s] # 0 /\ sessions'[s] # 0 /\ ~IsSampleStep)
              => objs'[sessions'[s]].batchMs = objs[sessions[s]].batchMs]_vars

\* C8 amended: ingest, flush, tabAudioLost and stop leave the threshold of
\* every session state unchanged (only a latency sample changes it); a
\* successful resume, like start, installs a state whose threshold is 30000.
C8_ThresholdFrameExceptResume ==
    [][/\ \A o \in 1..Len(objs) :
              ~IsSampleStep => objs'[o].batchMs = objs[o].batchMs
       /\ \A s \in SessionIds :
              (sessions'[s] # sessions[s] /\ sessions'[s] # 0)
                  => /\ IsSetStep
                     /\ sessions'[s] = Len(objs) + 1
                     /\ objs'[sessions'[s]].batchMs = 30000]_vars

\* C8 witness: a resume has replaced a state whose threshold had moved, and
\* fragments have been ingested into the new state.
C8_Witness ==
    /\ Len(objs) = 2 /\ sessions["s1"] = 2
    /\ objs[1].batchMs # 30000
    /\ objs[2].batchMs = 30000
    /\ objs[2].accumulatedMs > 0

Occupancy(ring) == Cardinality({i \in 1..Len(ring.data) : Len(ring.data[i]) > 0})

\* C9: the ring never retains more than `capacity` non-empty fragments and
\* the snapshot returns at most `capacity` fragments.
C9_RingBounded ==
    /\ Occupancy(uring) <= uring.capacity
    /\ Len(ringToArray(uring)) <= uring.capacity

\* C9 witness: the ring is full of non-empty fragments after it has wrapped.
C9_Witness ==
    /\ Len(upushed) > uring.capacity
    /\ Occupancy(uring) = uring.capacity
    /\ Len(ringToArray(uring)) = uring.capacity

Min(a, b) == IF a < b THEN a ELSE b

\* C10: after k pushes of non-empty fragments the snapshot is exactly the
\* last min(k, N) pushed fragments, oldest first.
C10_SnapshotIsLastPushed ==
    (\A i \in 1..Len(upushed) : upushed[i] # <<>>)
        => ringToArray(uring) =
               SubSeq(upushed,
                      Len(upushed) - Min(Len(upushed), uring.capacity) + 1,
                      Len(upushed))

\* C10 witness: more non-empty fragments pushed than the ring holds, the
\* newest differing from the one it overwrote.
C10_Witness ==
    /\ uring.capacity >= 2
    /\ Len(upushed) > uring.capacity
    /\ \A i \in 1..Len(upushed) : upushed[i] # <<>>
    /\ upushed[Len(upushed)] # upushed[Len(upushed) - uring.capacity]

\* The step is the arrival of a control event `op` for session s.
Arrives(op, s) == last'.op = op /\ last'.sid = s /\ nCtl' = nCtl + 1

\* The step emits exactly one session_error event for s, with one of msgs.
EmitsError(s, msgs) ==
    /\ Len(out') = 1
    /\ out'[1].type = "session_error" /\ out'[1].sid = s
    /\ out'[1].data[1] \in msgs

\* C11: a resume that finds the persisted status Processing or Completed
\* emits the state error (or the generic resume failure when the lookup
\* itself fails), leaves the registry and every session state as they are
\* and leaves no continuation that could install a state.
C11_ResumeRejectedUnlessRecording ==
    [][\A s \in SessionIds :
          (Arrives("resume_session", s) /\ dbStatus[s] \in {"PROCESSING", "COMPLETED"})
              => /\ EmitsError(s, {NotRecordingMsg, ResumeFailedMsg})
                 /\ sessions' = sessions /\ objs' = objs
                 /\ handlers' = handlers
                 /\ dbStatus' = dbStatus]_vars

\* C11 witness: a resume of a Completed session was rejected with the state
\* error.
C11_Witness ==
    /\ last.op = "resume_session"
    /\ dbStatus[last.sid] = "COMPLETED"
    /\ out = <<ErrorEvent(last.sid, NotRecordingMsg)>>

\* The step is the store call (create or update of the Summary) of the
\* suspended stop handler h.
IsUpsertStep(h) == h \in Suspended /\ h.op = "stop" /\ h.pc = "upsert" /\ Resumed(h)

C13_CompletedIsTerminal ==
    [][\A s \in SessionIds :
          \/ dbStatus'[s] = dbStatus[s]
          \/ <<dbStatus[s], dbStatus'[s]>> \in
                 {<<"NONE", "RECORDING">>, <<"RECORDING", "PROCESSING">>,
                  <<"PROCESSING", "COMPLETED">>}]_vars

\* C14: a start with a missing sessionId or userId, or with a userId that is
\* not in the store, emits one error (the validation error; the not-found
\* error, or the generic start failure when the lookup itself fails) and
\* creates no durable Session, no session state and no continuation.
C14_StartRejected ==
    [][\A s \in SessionIds \cup {""} :
          (Arrives("start_session", s)
           /\ (s = "" \/ last'.userId = "" \/ last'.userId \notin UserIds))
              => /\ EmitsError(s, IF s = "" \/ last'.userId = ""
                                  THEN {IdsRequiredMsg}
                                  ELSE {UserNotFoundMsg, StartFailedMsg})
                 /\ dbStatus' = dbStatus
                 /\ sessions' = sessions /\ objs' = objs
                 /\ handlers' = handlers]_vars

\* C14 witness: a start for an unknown user was rejected.
C14_Witness ==
    /\ last.op = "start_session" /\ last.sid = "s1" /\ last.userId = "u2"
    /\ out = <<ErrorEvent("s1", UserNotFoundMsg)>>
    /\ dbStatus["s1"] = "NONE" /\ sessions["s1"] = 0

\* The step is the `sessions.set` of the suspended start handler h.
IsStartSetStep(h) == h \in Suspended /\ h.op = "start" /\ h.pc = "set" /\ Resumed(h)

\* C15: a start that creates the durable Session creates it with status
\* RECORDING; its continuation installs a state with an empty ring of
\* capacity 20, threshold 30000, an empty queue of capacity 3, chunk index 0
\* and accumulatedMs 0, and reports status recording; a session state and a
\* pending installation exist only for a session whose durable create
\* succeeded.
C15_StartCreates ==
    /\ [](\A s \in SessionIds :
             (sessions[s] # 0 \/ \E h \in Suspended : h.op = "start" /\ h.sid = s)
                 => dbStatus[s] # "NONE")
    /\ [][\A s \in SessionIds :
             (Arrives("start_session", s) /\ dbStatus'[s] # dbStatus[s])
                 => /\ dbStatus[s] = "NONE" /\ dbStatus'[s] = "RECORDING"
                    /\ sessions' = sessions /\ objs' = objs
                    /\ \E h \in BagToSet(handlers') :
                           /\ handlers' = With(handlers, h)
                           /\ h.op = "start" /\ h.sid = s /\ h.pc = "set"
                           /\ h.userId = last'.userId]_vars
    /\ [][\A h \in Suspended :
             IsStartSetStep(h)
                 => /\ sessions' = [sessions EXCEPT ![h.sid] = Len(objs) + 1]
                    /\ Len(objs') = Len(objs) + 1
                    /\ LET st == objs'[Len(objs) + 1]
                       IN /\ st.ring = [data |-> [i \in 1..20 |-> <<>>],
                                        capacity |-> 20, index |-> 0]
                          /\ st.batchMs = 30000
                          /\ st.pendingBatches = <<>> /\ st.maxPending = 3
                          /\ st.dbChunkIndex = 0 /\ st.accumulatedMs = 0
                          /\ st.userId = h.userId /\ st.mode = h.mode
                    /\ out' = <<Event("session_status", h.sid, <<"recording">>)>>]_vars

\* C15 witness: a start has installed its state and reported recording.
C15_Witness ==
    /\ last.op = "start_set" /\ last.sid = "s1"
    /\ sessions["s1"] = 1 /\ Len(objs) = 1
    /\ dbStatus["s1"] = "RECORDING"
    /\ out = <<Event("session_status", "s1", <<"recording">>)>>

\* The step is the `sessions.set` of the suspended resume handler h.
IsResumeSetStep(h) == h \in Suspended /\ h.op = "resume" /\ h.pc = "set" /\ Resumed(h)

\* C16: a successful resume installs a fresh state (empty ring, empty queue,
\* threshold 30000, accumulatedMs 0) whose chunk index is the number of the
\* session's persisted chunks, and no chunk is ever appended for a batch of a
\* state that a resume has replaced.
C16_ResumeFreshAndLossy ==
    /\ [][\A h \in Suspended :
             IsResumeSetStep(h)
                 => /\ sessions' = [sessions EXCEPT ![h.sid] = Len(objs) + 1]
                    /\ LET st == objs'[Len(objs) + 1]
                       IN /\ st.ring = [data |-> [i \in 1..20 |-> <<>>],
                                        capacity |-> 20, index |-> 0]
                          /\ st.batchMs = 30000
                          /\ st.pendingBatches = <<>>
                          /\ st.accumulatedMs = 0
                          /\ st.dbChunkIndex = Len(dbChunks[h.sid])]_vars
    /\ [][\A d \in drains :
             (d.pc = "create" /\ d \notin drains'
              /\ Len(dbChunks'[d.sid]) > Len(dbChunks[d.sid]))
                 => ~(sessions[d.sid] # 0 /\ d.obj < sessions[d.sid])]_vars

\* C17: a resume or a stop for a session identifier with no durable Session
\* emits one error (not found, or the generic failure when the lookup itself
\* fails) and changes nothing: no durable row, no registry entry, no session
\* state, no continuation.
C17_UnknownSessionRejected ==
    [][\A s \in SessionIds :
          /\ (Arrives("resume_session", s) /\ dbStatus[s] = "NONE")
                 => EmitsError(s, {ResumeNotFoundMsg, ResumeFailedMsg})
          /\ (Arrives("stop_session", s) /\ dbStatus[s] = "NONE")
                 => EmitsError(s, {StopNotFoundMsg, StopFailedMsg})
          /\ ((Arrives("resume_session", s) \/ Arrives("stop_session", s))
               /\ dbStatus[s] = "NONE")
                 => /\ dbStatus' = dbStatus /\ dbChunks' = dbChunks
                    /\ dbSummary' = dbSummary
                    /\ sessions' = sessions /\ objs' = objs
                    /\ handlers' = handlers /\ drains' = drains]_vars

\* C17 witness: a stop for a session that was never started was rejected.
C17_Witness ==
    /\ last.op = "stop_session" /\ last.sid = "s1"
    /\ dbStatus["s1"] = "NONE"
    /\ out = <<ErrorEvent("s1", StopNotFoundMsg)>>

\* C18: in a started session the first nine fragments only accumulate (3000
\* ms each) and the tenth reaches the threshold of 30000: it enqueues the one
\* batch and resets accumulatedMs to 0, and that batch yields the session's
\* one TranscriptChunk, at index 0 (none only if its durable append failed,
\* which leaves the index at 0).
C18_TenFragmentsOneChunk ==
    (Len(objs) = 1 /\ nIngest <= 10)
        => LET st == objs[1]
               sid == CHOOSE s \in SessionIds : dbStatus[s] # "NONE"
               chunks == dbChunks[sid]
           IN /\ st.accumulatedMs = IF nIngest = 10 THEN 0 ELSE 3000 * nIngest
              /\ now = IF nIngest = 10 THEN 1 ELSE 0
              /\ st.pendingBatches = <<>>
              /\ nIngest < 10 => (drains = {} /\ chunks = <<>>)
              /\ Cardinality(drains) <= 1
              /\ \A d \in drains : d.batch.timestamp = 1 /\ d.obj = 1
              /\ Len(chunks) <= 1
              /\ \A i \in 1..Len(chunks) :
                     chunks[i].index = 0 /\ chunks[i].batch = 1
              /\ st.dbChunkIndex = IF chunks # <<>> /\ drains = {} THEN 1 ELSE 0

\* C18 witness: ten fragments after a start, the drain finished, one chunk
\* at index 0.
C18_Witness ==
    /\ Len(objs) = 1 /\ nIngest = 10 /\ drains = {}
    /\ objs[1].accumulatedMs = 0 /\ objs[1].dbChunkIndex = 1
    /\ Len(dbChunks["s1"]) = 1 /\ dbChunks["s1"][1].index = 0

\* The drain that continues d after a step, if d took that step.
Continued(d) == {e \in drains' \ drains : e.obj = d.obj /\ e.batch = d.batch}

\* C19: when transcribeChunk resolves to null (the call failed or returned
\* empty text) the drain goes on to persist the batch with the placeholder
\* text "(unintelligible)"; the append adds exactly one chunk with that text
\* and, once it has succeeded, the index advances by exactly 1, the batch is
\* not taken again and the drain takes the next queued batch, if any.
C19_PlaceholderOnFailure ==
    [][\A d \in drains :
          /\ (d.pc = "transcribe" /\ d \notin drains')
                 => \E e \in Continued(d) :
                        /\ drains' = (drains \ {d}) \cup {e}
                        /\ e.pc = "create"
                        /\ e.index = objs[d.obj].dbChunkIndex
                        /\ e.result = NULL => e.text = "(unintelligible)"
          /\ (d.pc = "create" /\ d.result = NULL /\ d \notin drains'
               /\ dbChunks'[d.sid] # dbChunks[d.sid])
                 => /\ Len(dbChunks'[d.sid]) = Len(dbChunks[d.sid]) + 1
                    /\ SubSeq(dbChunks'[d.sid], 1, Len(dbChunks[d.sid])) = dbChunks[d.sid]
                    /\ dbChunks'[d.sid][Len(dbChunks'[d.sid])].text = "(unintelligible)"
                    /\ dbChunks'[d.sid][Len(dbChunks'[d.sid])].index = d.index
          /\ (d.pc = "created" /\ d.result = NULL /\ d \notin drains')
                 => /\ objs'[d.obj].dbChunkIndex = objs[d.obj].dbChunkIndex + 1
                    /\ Continued(d) = {}
                    /\ dbChunks' = dbChunks
                    /\ LET q == objs[d.obj].pendingBatches
                       IN IF q = <<>>
                          THEN drains' = drains \ {d}
                          ELSE /\ objs'[d.obj].pendingBatches = Tail(q)
                               /\ \E e \in drains' \ drains :
                                      /\ drains' = (drains \ {d}) \cup {e}
                                      /\ e.obj = d.obj /\ e.batch = Head(q)
                                      /\ e.pc = "transcribe"]_vars

\* C19 witness: a batch whose transcription failed has its chunk with the
\* placeholder text, and the index has advanced past it.
C19_Witness ==
    /\ Len(objs) = 1 /\ drains = {}
    /\ Len(dbChunks["s1"]) = 1
    /\ dbChunks["s1"][1].text = "(unintelligible)"
    /\ dbChunks["s1"][1].index = 0
    /\ objs[1].dbChunkIndex = 1

\* C20: when transcriptChunk.create fails, nothing is appended for the
\* batch, the session's chunk index stays as it is, the only event emitted is
\* one session_error (no transcription_update, no diagnostics_update), the
\* session stays registered with its durable status, the batch is not taken
\* again and the drain takes the next queued batch, if any.
C20_AppendFailureIsAbsorbed ==
    /\ [](\A d \in drains :
             d.pc = "failed"
                 => \A i \in 1..Len(dbChunks[d.sid]) :
                        dbChunks[d.sid][i].batch # d.batch.timestamp)
    /\ [][\A d \in drains :
             /\ (d.pc = "create" /\ d \notin drains'
                  /\ \E e \in Continued(d) : e.pc = "failed")
                    => dbChunks' = dbChunks /\ objs' = objs /\ out' = <<>>
             /\ (d.pc = "failed" /\ d \notin drains')
                    => /\ dbChunks' = dbChunks
                       /\ objs'[d.obj].dbChunkIndex = objs[d.obj].dbChunkIndex
                       /\ out' = <<[type |-> "session_error", sid |-> d.sid,
                                    data |-> <<"Failed to save transcript chunk.">>]>>
                       /\ sessions' = sessions /\ dbStatus' = dbStatus
                       /\ Continued(d) = {}
                       /\ LET q == objs[d.obj].pendingBatches
                          IN IF q = <<>>
                             THEN drains' = drains \ {d}
                             ELSE /\ objs'[d.obj].pendingBatches = Tail(q)
                                  /\ \E e \in drains' \ drains :
                                         /\ drains' = (drains \ {d}) \cup {e}
                                         /\ e.obj = d.obj /\ e.batch = Head(q)
                                         /\ e.pc = "transcribe"]_vars

\* C20 witness: the append of the first batch failed; the error was emitted,
\* no chunk exists, the index is still 0 and the session is still registered.
C20_Witness ==
    /\ last.op = "created" /\ last.sid = "s1"
    /\ out = <<ErrorEvent("s1", SaveFailedMsg)>>
    /\ nIngest = 10 /\ drains = {}
    /\ dbChunks["s1"] = <<>>
    /\ sessions["s1"] = 1 /\ objs[1].dbChunkIndex = 0
    /\ dbStatus["s1"] = "RECORDING"

\* The step is the one the suspended stop handler h takes from position pc.
IsStopStep(h, pc) == h \in Suspended /\ h.op = "stop" /\ h.pc = pc /\ Resumed(h)

\* The handlers h can have become in the step: h goes on at position pc.
StopGoesOn(h, pc) ==
    {g \in BagToSet(handlers') : g.pc = pc /\ handlers' = With(Without(handlers, h), g)}

\* The stop handler h ended in this step with the generic stop error.
StopAborts(h) == handlers' = Without(handlers, h) /\ h.pc # "finish"

\* C21: a stop that reads no chunk for its session takes the empty
\* transcript, goes on to call summarizeTranscript (once: it resolves and the
\* handler moves on to the Summary), creates the Summary row with the text
\* the call resolved to when the session has none, sets the status
\* COMPLETED and emits session_completed carrying the empty transcript.
C21_EmptyTranscriptStop ==
    [][\A h \in Suspended :
          /\ (IsStopStep(h, "findMany") /\ dbChunks[h.sid] = <<>> /\ ~StopAborts(h))
                 => \E g \in StopGoesOn(h, "summarize") :
                        g = [h EXCEPT !.pc = "summarize", !.fullTranscript = <<>>]
          /\ (IsStopStep(h, "summarize") /\ h.fullTranscript = <<>> /\ ~StopAborts(h))
                 => \E g \in StopGoesOn(h, "upsert") :
                        /\ g.fullTranscript = <<>>
                        /\ g.summary \in {"summary", "Summary generation failed.",
                                          "Summary unavailable."}
          /\ (IsStopStep(h, "upsert") /\ h.fullTranscript = <<>> /\ ~StopAborts(h)
               /\ dbSummary[h.sid] = <<>>)
                 => /\ last'.op = "stop_create"
                    /\ dbSummary'[h.sid] = <<h.summary>>
                    /\ StopGoesOn(h, "completed") = {[h EXCEPT !.pc = "completed"]}
          /\ (IsStopStep(h, "completed") /\ h.fullTranscript = <<>> /\ ~StopAborts(h))
                 => /\ dbStatus'[h.sid] = "COMPLETED"
                    /\ StopGoesOn(h, "finish") = {[h EXCEPT !.pc = "finish"]}
          /\ (IsStopStep(h, "finish") /\ h.fullTranscript = <<>>)
                 => /\ out' = <<[type |-> "session_completed", sid |-> h.sid,
                                 data |-> <<<<>>, h.summary>>]>>
                    /\ handlers' = Without(handlers, h)]_vars

\* C21 witness: a session without chunks was stopped; its Summary row was
\* created, it is COMPLETED and the completion event carries the empty
\* transcript.
C21_Witness ==
    /\ last.op = "stop_finish" /\ last.sid = "s1"
    /\ dbChunks["s1"] = <<>>
    /\ dbSummary["s1"] = <<"summary">>
    /\ dbStatus["s1"] = "COMPLETED"
    /\ out = <<Event("session_completed", "s1", <<<<>>, "summary">>)>>

\* texts is the texts of rows taken in ascending order of index.
InIndexOrder(texts, rows) ==
    /\ Len(texts) = Len(rows)
    /\ \A i \in 1..Len(rows) :
           texts[Cardinality({j \in 1..Len(rows) : rows[j].index <= rows[i].index})]
               = rows[i].text

\* C22: a stop handler that is not cut short by a failing store call takes
\* its steps in this order, each doing only its own part: status PROCESSING
\* with endedAt; the chunks read in ascending index order; summarizeTranscript
\* called and resolved once; the Summary created or updated; status
\* COMPLETED; then session_completed emitted and the session removed from
\* the registry.  So a COMPLETED session always has its Summary row.
C22_StopStepsInOrder ==
    /\ [](\A s \in SessionIds : dbStatus[s] = "COMPLETED" => Len(dbSummary[s]) = 1)
    /\ [](\A h \in Suspended :
             h.op = "stop"
                 => /\ h.pc \in {"findMany", "summarize", "upsert", "completed", "finish"}
                        => dbEndedAt[h.sid] /\ dbStatus[h.sid] \in {"PROCESSING", "COMPLETED"}
                    /\ h.pc \in {"completed", "finish"} => Len(dbSummary[h.sid]) = 1)
    /\ [][\A h \in Suspended :
             /\ (IsStopStep(h, "processing") /\ ~StopAborts(h))
                    => /\ StopGoesOn(h, "findMany") = {[h EXCEPT !.pc = "findMany"]}
                       /\ dbStatus'[h.sid] = "PROCESSING" /\ dbEndedAt'[h.sid]
                       /\ dbSummary' = dbSummary /\ sessions' = sessions /\ out' = <<>>
             /\ (IsStopStep(h, "findMany") /\ ~StopAborts(h))
                    => /\ \E g \in StopGoesOn(h, "summarize") :
                              /\ InIndexOrder(g.fullTranscript, dbChunks[h.sid])
                              /\ g = [h EXCEPT !.pc = "summarize",
                                               !.fullTranscript = g.fullTranscript]
                       /\ dbStatus' = dbStatus /\ dbSummary' = dbSummary
                       /\ sessions' = sessions /\ out' = <<>>
             /\ (IsStopStep(h, "summarize") /\ ~StopAborts(h))
                    => /\ \E g \in StopGoesOn(h, "upsert") :
                              g = [h EXCEPT !.pc = "upsert", !.summary = g.summary,
                                            !.existingSummary = (dbSummary[h.sid] # <<>>)]
                       /\ dbStatus' = dbStatus /\ dbSummary' = dbSummary
                       /\ sessions' = sessions /\ out' = <<>>
             /\ (IsStopStep(h, "upsert") /\ ~StopAborts(h))
                    => /\ StopGoesOn(h, "completed") = {[h EXCEPT !.pc = "completed"]}
                       /\ dbSummary'[h.sid] = <<h.summary>>
                       /\ dbStatus' = dbStatus
                       /\ sessions' = sessions /\ out' = <<>>
             /\ (IsStopStep(h, "completed") /\ ~StopAborts(h))
                    => /\ StopGoesOn(h, "finish") = {[h EXCEPT !.pc = "finish"]}
                       /\ dbStatus'[h.sid] = "COMPLETED"
                       /\ dbSummary' = dbSummary
                       /\ sessions' = sessions /\ out' = <<>>
             /\ IsStopStep(h, "finish")
                    => /\ handlers' = Without(handlers, h)
                       /\ out' = <<[type |-> "session_completed", sid |-> h.sid,
                                    data |-> <<h.fullTranscript, h.summary>>]>>
                       /\ sessions' = [sessions EXCEPT ![h.sid] = 0]
                       /\ dbStatus' = dbStatus /\ dbSummary' = dbSummary]_vars

\* C22 witness: a stop of a registered session with three chunks has run to
\* its end: the transcript is in index order, the Summary row exists, the
\* status is COMPLETED, the event is out and the registry entry is gone.
C22_Witness ==
    /\ last.op = "stop_finish" /\ last.sid = "s1"
    /\ Len(dbChunks["s1"]) = 3 /\ Len(objs) = 1
    /\ out = <<Event("session_completed", "s1",
                     <<<<"hello", "(unintelligible)", "hello">>, "summary">>)>>
    /\ dbSummary["s1"] = <<"summary">>
    /\ dbStatus["s1"] = "COMPLETED" /\ dbEndedAt["s1"]
    /\ sessions["s1"] = 0

\* The step is a stop_session, arriving or resumed, one of whose store calls
\* throws: the handler for session s ends in its catch.
StopCallFails(s) ==
    \/ /\ Arrives("stop_session", s) /\ dbStatus[s] # "NONE"
       /\ handlers' = handlers
    \/ \E h \in Suspended : /\ h.op = "stop" /\ h.sid = s /\ h.pc # "finish"
                            /\ Resumed(h) /\ StopAborts(h)

\* C23 as stated: a stop one of whose store calls fails emits an error and
\* no completion event, does not write COMPLETED, keeps the registry, and
\* leaves the durable status PROCESSING.
C23_FailedStopLeavesProcessing ==
    [][\A s \in SessionIds :
          StopCallFails(s)
              => /\ EmitsError(s, {StopFailedMsg})
                 /\ dbStatus'[s] = "PROCESSING"
                 /\ sessions' = sessions /\ objs' = objs]_vars

\* C23 amended: a stop one of whose store calls fails emits the one stop
\* error and no completion event, writes nothing (so not COMPLETED), and
\* keeps the registry and the session state; the durable status stays as the
\* failing call found it, which is PROCESSING (or the COMPLETED of another
\* stop) once the handler's first update has succeeded, and the status from
\* before the stop when the lookup or that update is the call that fails.
C23_FailedStopKeepsState ==
    /\ [][\A s \in SessionIds :
             StopCallFails(s)
                 => /\ EmitsError(s, {StopFailedMsg})
                    /\ dbStatus' = dbStatus /\ dbEndedAt' = dbEndedAt
                    /\ dbSummary' = dbSummary /\ dbChunks' = dbChunks
                    /\ sessions' = sessions /\ objs' = objs
                    /\ \A g \in BagToSet(handlers') : g \in Suspended]_vars
    /\ [][\A h \in Suspended :
             (h.op = "stop" /\ h.pc \notin {"processing", "finish"}
               /\ Resumed(h) /\ StopAborts(h))
                 => dbStatus'[h.sid] \in {"PROCESSING", "COMPLETED"}]_vars

\* C23 witness: the update to COMPLETED of a stop of a registered session
\* failed: the error is out, the status is PROCESSING, the Summary row is
\* written and the session is still registered.
C23_Witness ==
    /\ last.op = "stop_completed" /\ last.sid = "s1"
    /\ out = <<ErrorEvent("s1", StopFailedMsg)>>
    /\ dbStatus["s1"] = "PROCESSING"
    /\ Len(dbSummary["s1"]) = 1
    /\ sessions["s1"] = 1 /\ Len(objs) = 1
    /\ handlers = EmptyBag

\* C24: a failing summarization resolves to the text "Summary generation
\* failed." (with a model configured the handler's summary is the model's
\* text or that text) and the stop goes on as for any other summary: the
\* Summary row is written with that text, the status is set COMPLETED and
\* session_completed is emitted carrying it; only a failing store call ends
\* the handler otherwise.
C24_SummaryFailureAbsorbed ==
    /\ [](\A h \in Suspended :
             (h.op = "stop" /\ h.pc \in {"upsert", "completed", "finish"})
                 => h.summary \in (IF transcriptionModel
                                   THEN {"summary", "Summary generation failed."}
                                   ELSE {"Summary unavailable."}))
    /\ [][\A h \in Suspended :
             h.summary = "Summary generation failed."
                 => /\ (IsStopStep(h, "upsert") /\ ~StopAborts(h))
                           => /\ dbSummary'[h.sid] = <<"Summary generation failed.">>
                              /\ StopGoesOn(h, "completed") # {}
                    /\ (IsStopStep(h, "completed") /\ ~StopAborts(h))
                           => /\ dbStatus'[h.sid] = "COMPLETED"
                              /\ StopGoesOn(h, "finish") # {}
                    /\ IsStopStep(h, "finish")
                           => /\ Len(out') = 1 /\ out'[1].type = "session_completed"
                              /\ out'[1].sid = h.sid
                              /\ out'[1].data[2] = "Summary generation failed."]_vars

\* C24 witness: the summarization of a session with a chunk failed, and the
\* stop has still run to its end with the failure text as the summary.
C24_Witness ==
    /\ last.op = "stop_finish" /\ last.sid = "s1"
    /\ transcriptionModel
    /\ Len(dbChunks["s1"]) = 1
    /\ dbSummary["s1"] = <<"Summary generation failed.">>
    /\ dbStatus["s1"] = "COMPLETED"
    /\ out = <<Event("session_completed", "s1", <<<<"hello">>, "Summary generation failed.">>)>>

\* The next step of the suspended stop handler h, its store call succeeding.
StopProceeds(h) ==
    \/ StopProcessing(h, TRUE)
    \/ StopFindMany(h, TRUE)
    \/ \E r \in SummaryResults : StopFindSummary(h, r, TRUE)
    \/ StopUpsert(h, TRUE)
    \/ StopCompleted(h, TRUE)
    \/ StopFinish(h)

\* C25: stop does not wait for a drain of its session and does not cancel
\* it.  Every suspended stop handler can take its next step whatever drains
\* are active, and every pending transcription call can resolve whatever the
\* stop has done; no step of a stop handler touches a drain, a session state
\* or a chunk; the transcript is the texts of the chunks in the store at the
\* read, and is what the later steps and the completion event carry.
C25_StopIgnoresDrain ==
    /\ [](\A h \in Suspended : h.op = "stop" => ENABLED StopProceeds(h))
    /\ [](\A d \in drains :
             d.pc = "transcribe"
                 => ENABLED (\E r \in TranscribeResults, latency \in Latencies :
                                 TranscribeDone(d, r, latency)))
    /\ [][\A s \in SessionIds :
             Arrives("stop_session", s)
                 => drains' = drains /\ objs' = objs /\ dbChunks' = dbChunks
                    /\ sessions' = sessions]_vars
    /\ [][\A h \in Suspended :
             (h.op = "stop" /\ Resumed(h))
                 => /\ drains' = drains /\ objs' = objs /\ dbChunks' = dbChunks
                    /\ (h.pc = "findMany" /\ ~StopAborts(h))
                           => \E g \in StopGoesOn(h, "summarize") :
                                  InIndexOrder(g.fullTranscript, dbChunks[h.sid])
                    /\ (h.pc \notin {"findMany", "finish"} /\ ~StopAborts(h))
                           => \E g \in BagToSet(handlers') :
                                  /\ handlers' = With(Without(handlers, h), g)
                                  /\ g.fullTranscript = h.fullTranscript
                    /\ h.pc = "finish"
                           => /\ Len(out') = 1 /\ out'[1].type = "session_completed"
                              /\ out'[1].data[1] = h.fullTranscript]_vars

\* C25 witness: the stop ran to its end (COMPLETED, session removed, an empty
\* transcript) while the transcription of the session's first batch was
\* pending, and that call has now resolved.
C25_Witness ==
    /\ last.op = "transcribed" /\ last.sid = "s1"
    /\ dbStatus["s1"] = "COMPLETED"
    /\ Len(dbSummary["s1"]) = 1
    /\ sessions["s1"] = 0 /\ handlers = EmptyBag
    /\ dbChunks["s1"] = <<>>
    /\ \E d \in drains : d.sid = "s1" /\ d.pc = "create"

\* Everything that belongs to session s: its registry entry and state, its
\* rows in the store, its active drains and its suspended handlers.
SessionView(s) ==
    [state |-> IF sessions[s] = 0 THEN <<>> ELSE <<objs[sessions[s]]>>,
     status |-> dbStatus[s], chunks |-> dbChunks[s], summary |-> dbSummary[s],
     drains |-> {d \in drains : d.sid = s},
     handlers |-> {<<h, CopiesIn(h, handlers)>> : h \in {g \in Suspended : g.sid = s}}]

\* The next step of the drain d, its store call succeeding.
DrainProceeds(d) ==
    \/ \E r \in TranscribeResults, latency \in Latencies : TranscribeDone(d, r, latency)
    \/ CreateExec(d, TRUE)
    \/ CreateDone(d)

\* C26: a step made for one session (an event, a continuation of one of its
\* handlers, a drain step) changes nothing that belongs to another session;
\* and while a transcription call of session a is pending, session b's next
\* fragment is accepted, every drain of b and every stop handler of b can
\* take its next step and a stop of b can start.
C26_SessionsIsolated ==
    /\ [][\A b \in SessionIds : b # last'.sid => SessionView(b)' = SessionView(b)]_vars
    /\ [](\A a \in SessionIds : \A b \in SessionIds \ {a} :
             (\E d \in drains : d.sid = a /\ d.pc = "transcribe")
                 => /\ (sessions[b] # 0 /\ nIngest < caps.ingest)
                           => ENABLED (\E buf \in Fragments : AudioChunk(b, buf))
                    /\ \A d \in drains : d.sid = b => ENABLED DrainProceeds(d)
                    /\ \A h \in Suspended :
                           (h.sid = b /\ h.op = "stop") => ENABLED StopProceeds(h)
                    /\ nCtl < caps.ctl => ENABLED StopSession(b, TRUE))

\* C26 witness: the transcription of s1's first batch is still pending while
\* s2 was fed, drained (its chunk is in the store) and stopped (COMPLETED),
\* and s1's state is as its flush left it.
C26_Witness ==
    /\ \E d \in drains : d.sid = "s1" /\ d.pc = "transcribe" /\ d.batch.timestamp = 1
    /\ sessions["s1"] # 0
    /\ objs[sessions["s1"]].accumulatedMs = 0
    /\ objs[sessions["s1"]].dbChunkIndex = 0
    /\ dbChunks["s1"] = <<>>
    /\ Len(dbChunks["s2"]) = 1
    /\ dbStatus["s2"] = "COMPLETED" /\ dbStatus["s1"] = "RECORDING"
    /\ last.op = "stop_finish" /\ last.sid = "s2"

\* The step is an audio_chunk for the registered session s.
IsIngestStep(s) ==
    /\ nIngest' = nIngest + 1
    /\ sessions[s] # 0
    /\ objs'[sessions[s]].ring # objs[sessions[s]].ring

\* C27: an audio_chunk for a registered session writes the fragment at the
\* ring's write position and advances it, and adds 3000 to accumulatedMs.
\* Exactly when the sum reaches the threshold, one batch holding the
\* concatenated ring snapshot goes through the queue into a new drain (the
\* triggered drain takes the head of the queue at once) and accumulatedMs
\* becomes 0; otherwise accumulatedMs is the sum, the queue is as it was and
\* no drain starts.  Threshold and chunk index are not touched.
C27_IngestStep ==
    [][\A s \in SessionIds :
          IsIngestStep(s)
              => LET o == sessions[s]
                     st == objs[o]
                     st1 == objs'[o]
                     sum == st.accumulatedMs + 3000
                     slot == st.ring.index + 1
                 IN /\ sessions' = sessions
                    /\ st1.ring.data[slot] = <<nIngest'>>
                    /\ \A i \in 1..st.ring.capacity :
                           i # slot => st1.ring.data[i] = st.ring.data[i]
                    /\ st1.ring.index = (st.ring.index + 1) % st.ring.capacity
                    /\ st1.batchMs = st.batchMs
                    /\ st1.dbChunkIndex = st.dbChunkIndex
                    /\ IF sum >= st.batchMs
                       THEN /\ st1.accumulatedMs = 0
                            /\ \E d \in drains' \ drains :
                                   /\ drains' = drains \cup {d}
                                   /\ d.obj = o /\ d.sid = s /\ d.pc = "transcribe"
                                   /\ LET batch == [audio |->
                                                       BufferConcat(ringToArray(st1.ring)),
                                                    timestamp |-> now']
                                          q == st.pendingBatches \o <<batch>>
                                      IN /\ Len(st.pendingBatches) < st.maxPending
                                         /\ d.batch = Head(q)
                                         /\ st1.pendingBatches = Tail(q)
                       ELSE /\ st1.accumulatedMs = sum
                            /\ st1.pendingBatches = st.pendingBatches
                            /\ drains' = drains]_vars

\* C27 witness: ten fragments made one batch of the ten and started its
\* drain; the eleventh only added 3000.
C27_Witness ==
    /\ Len(objs) = 1 /\ sessions["s1"] = 1 /\ nIngest = 11
    /\ objs[1].accumulatedMs = 3000
    /\ objs[1].pendingBatches = <<>>
    /\ objs[1].ring.index = 11
    /\ \E d \in drains :
           /\ drains = {d} /\ d.pc = "transcribe"
           /\ d.batch.audio = <<1, 2, 3, 4, 5, 6, 7, 8, 9, 10>>

\* The last n of the fragments 1..k streamed so far, oldest first.
LastStreamed(n, k) == [i \in 1..n |-> k - n + i]

\* C28: a flush does to the ring what any audio_chunk does, and nothing
\* more: the fragment is written at the write position, the position
\* advances, every other slot keeps its fragment.  So the ring of the
\* streamed session always holds the last RingCapacity fragments (all of
\* them while fewer have arrived), whatever flushes there were, and every
\* batch is those fragments: a later batch repeats the fragments of the
\* earlier one that are still in the ring.
C28_FlushKeepsRing ==
    /\ [](\A s \in SessionIds :
             sessions[s] # 0
                 => LET ring == objs[sessions[s]].ring
                        n == Min(nIngest, ring.capacity)
                    IN /\ ring.index = nIngest % ring.capacity
                       /\ ringToArray(ring) = [i \in 1..n |-> <<LastStreamed(n, nIngest)[i]>>])
    /\ [](\A d \in drains :
             \E k \in 1..nIngest :
                 d.batch.audio = LastStreamed(Min(k, RingCapacity), k))
    /\ [][\A s \in SessionIds :
             (IsIngestStep(s) /\ drains' # drains)
                 => LET st == objs[sessions[s]]
                        st1 == objs'[sessions[s]]
                        slot == st.ring.index + 1
                    IN /\ st1.accumulatedMs = 0
                       /\ st1.ring.index = (st.ring.index + 1) % st.ring.capacity
                       /\ st1.ring.data[slot] = <<nIngest'>>
                       /\ \A i \in 1..st.ring.capacity :
                              i # slot => st1.ring.data[i] = st.ring.data[i]
                       /\ \E d \in drains' \ drains :
                              d.batch.audio =
                                  LastStreamed(Min(nIngest', RingCapacity), nIngest')]_vars

\* C28 witness: the second batch, flushed at the nineteenth fragment under
\* the lowered threshold, repeats the ten fragments of the first, which is
\* still being persisted.
C28_Witness ==
    \E d1 \in drains, d2 \in drains :
        /\ d1.batch.audio = <<1, 2, 3, 4, 5, 6, 7, 8, 9, 10>>
        /\ d2.batch.timestamp = d1.batch.timestamp + 1
        /\ Len(d2.batch.audio) = 19
        /\ SubSeq(d2.batch.audio, 1, 10) = d1.batch.audio
        /\ objs[d2.obj].batchMs = 25000
        /\ objs[d2.obj].ring.index = 19

\* The batches given to transcribeChunk so far, and those evicted so far:
\* enqueued, no longer queued, never given to transcribeChunk.
TakenSet == {utaken[i] : i \in 1..Len(utaken)}
EvictedSet == (1..uenq) \ (TakenSet \cup {uqueue[i].timestamp : i \in 1..Len(uqueue)})

\* C29: a drain takes the batch at the head of the queue, removes it and
\* gives it to transcribeChunk, so the calls are in enqueue order and no
\* batch is given twice, whichever activations take them and however their
\* calls end (nothing puts a batch back); a batch evicted by an enqueue into
\* a full queue is gone from the queue and is never given to transcribeChunk.
C29_DequeuedOnceInOrder ==
    /\ [](\A i \in 1..Len(utaken) : \A j \in 1..Len(utaken) :
             i < j => utaken[i] < utaken[j])
    /\ [][Len(utaken') > Len(utaken)
            => /\ uqueue # <<>>
               /\ utaken' = Append(utaken, uqueue[1].timestamp)
               /\ uqueue' = Tail(uqueue)]_vars
    /\ [][uenq' = uenq + 1
            => /\ utaken' = utaken
               /\ uqueue'[Len(uqueue')].timestamp = uenq'
               /\ \A t \in TakenSet : \A i \in 1..Len(uqueue') : uqueue'[i].timestamp # t]_vars
    /\ [][\A t \in EvictedSet : t \in EvictedSet']_vars

\* C29 witness: of five batches the first was taken, the second was evicted
\* by the fifth from the full queue of three, and the third was taken next.
C29_Witness ==
    /\ umaxPending = 3 /\ uenq = 5
    /\ utaken = <<1, 3>>
    /\ QueueTimestamps = <<4, 5>>
    /\ EvictedSet = {2}

\* The timestamps a batch can carry: a flush takes at least
\* MinBatchMs \div FragmentMs fragments.
BatchStamps == 1..(MaxIngest \div (MinBatchMs \div FragmentMs))

\* The batch stamped t has been taken by a drain that has not ended.
InFlight(t) == \E d \in drains : d.batch.timestamp = t

\* The batch stamped t has its chunk in the store.
Persisted(t) ==
    \E s \in SessionIds : \E i \in 1..Len(dbChunks[s]) : dbChunks[s][i].batch = t

\* C30: when every transcribeChunk call and every store call returns, each
\* batch taken by a drain is eventually done with, its drain having ended;
\* a drain ends on a batch only with the batch's chunk in the store or by
\* emitting the session_error of a failed append; and, the fragments having
\* stopped, eventually no drain is active and every queue is empty, for
\* good.
C30_DrainLiveness ==
    /\ \A t \in BatchStamps : InFlight(t) ~> (t <= now /\ ~InFlight(t))
    /\ [][\A d \in drains :
             (\A e \in drains' : e.batch # d.batch)
                 => \/ Persisted(d.batch.timestamp) /\ Len(out') = 2
                       /\ out'[1].type = "transcription_update"
                    \/ ~Persisted(d.batch.timestamp)
                       /\ out' = <<[type |-> "session_error", sid |-> d.sid,
                                    data |-> <<"Failed to save transcript chunk.">>]>>]_vars
    /\ <>[](/\ drains = {}
            /\ \A s \in SessionIds :
                   sessions[s] # 0 => objs[sessions[s]].pendingBatches = <<>>)

\* C30 witness: twenty fragments made two batches; both drains have ended,
\* the first with its chunk, the second with the error of its failed append.
C30_Witness ==
    /\ nIngest = 20 /\ now = 2 /\ drains = {}
    /\ Persisted(1) /\ ~Persisted(2)
    /\ last.op = "created"
    /\ out = <<ErrorEvent("s1", SaveFailedMsg)>>
    /\ objs[sessions["s1"]].pendingBatches = <<>>

\* C31: transcription_update and diagnostics_update are emitted only
\* together, in that order, by the step that follows a successful append of
\* a batch's chunk: the chunk (the drain's index and text) is in the store,
\* the step advances the session's index by 1, the update carries the
\* chunk's text and the diagnostics carry the session's threshold, last
\* latency and queue length as they are at that step.
C31_UpdatesAfterAppend ==
    [][(\E i \in 1..Len(out') :
            out'[i].type \in {"transcription_update", "diagnostics_update"})
          => \E d \in drains :
                 /\ d.pc = "created" /\ d \notin drains'
                 /\ \E i \in 1..Len(dbChunks[d.sid]) :
                        /\ dbChunks[d.sid][i].index = d.index
                        /\ dbChunks[d.sid][i].text = d.text
                        /\ dbChunks[d.sid][i].batch = d.batch.timestamp
                 /\ dbChunks' = dbChunks
                 /\ objs'[d.obj].dbChunkIndex = objs[d.obj].dbChunkIndex + 1
                 /\ out' = <<[type |-> "transcription_update", sid |-> d.sid,
                              data |-> <<d.text>>],
                             [type |-> "diagnostics_update", sid |-> d.sid,
                              data |-> <<objs[d.obj].batchMs,
                                         objs[d.obj].lastGeminiLatency,
                                         Len(objs[d.obj].pendingBatches)>>]>>]_vars

\* C31 witness: the first batch's updates were emitted after the second
\* batch's sample had lowered the threshold again: the diagnostics carry the
\* threshold of that moment, 20000.
C31_Witness ==
    /\ last.op = "created" /\ last.sid = "s1"
    /\ Len(dbChunks["s1"]) = 1 /\ dbChunks["s1"][1].batch = 1
    /\ objs[1].dbChunkIndex = 1
    /\ out = <<Event("transcription_update", "s1", <<"hello">>),
               Event("diagnostics_update", "s1", <<20000, 5000, 0>>)>>

\* C32: the instruction sent with a batch of a tab session is not the one
\* sent for a mic session.
C32_ModeDependentInstruction ==
    \A d \in drains :
        (d.pc = "transcribe" /\ objs[d.obj].mode = "tab")
            => TranscribeRequest(d).text # TranscribePrompt("mic")

\* C33 as stated: once a session's status is COMPLETED no chunk is appended
\* for it, and the completion event's transcript has every chunk of the
\* session.
C33_NoChunkAfterCompleted ==
    /\ [][\A s \in SessionIds :
             dbStatus[s] = "COMPLETED" => dbChunks'[s] = dbChunks[s]]_vars
    /\ [][\A h \in Suspended :
             IsStopStep(h, "finish") => Len(h.fullTranscript) = Len(dbChunks[h.sid])]_vars

\* C33 amended: the store's chunks of a session only grow, by appends, also
\* after COMPLETED; the transcript a stop carries from its read to its
\* completion event is, in index order, the texts of the chunks that were in
\* the store at the read, which stay the first rows of the session.
C33_TranscriptIsChunksAtRead ==
    /\ [][\A s \in SessionIds :
             \/ dbChunks'[s] = dbChunks[s]
             \/ /\ Len(dbChunks'[s]) = Len(dbChunks[s]) + 1
                /\ SubSeq(dbChunks'[s], 1, Len(dbChunks[s])) = dbChunks[s]]_vars
    /\ [](\A h \in Suspended :
             (h.op = "stop" /\ h.pc \in {"summarize", "upsert", "completed", "finish"})
                 => /\ Len(h.fullTranscript) <= Len(dbChunks[h.sid])
                    /\ InIndexOrder(h.fullTranscript,
                                    SubSeq(dbChunks[h.sid], 1, Len(h.fullTranscript))))
    /\ [][\A h \in Suspended :
             IsStopStep(h, "finish")
                 => /\ Len(out') = 1 /\ out'[1].type = "session_completed"
                    /\ out'[1].data[1] = h.fullTranscript]_vars

\* C33 witness: the chunk of the batch that was in flight during the stop
\* has been appended to the session, which is COMPLETED and gone from the
\* registry; the stop had read no chunk.
C33_Witness ==
    /\ last.op = "create" /\ last.sid = "s1"
    /\ dbStatus["s1"] = "COMPLETED" /\ sessions["s1"] = 0
    /\ handlers = EmptyBag /\ nCtl = 2
    /\ Len(dbChunks["s1"]) = 1 /\ dbChunks["s1"][1].batch = 1
    /\ \E d \in drains : d.pc = "created" /\ d.batch.timestamp = 1

C35_IngestWithoutSessionIgnored ==
    [][(last'.op = "audio_chunk" /\ last'.sid \in SessionIds /\ sessions[last'.sid] = 0)
          => /\ objs' = objs /\ sessions' = sessions
             /\ drains' = drains /\ handlers' = handlers
             /\ dbChunks' = dbChunks /\ dbStatus' = dbStatus
             /\ dbSummary' = dbSummary /\ dbEndedAt' = dbEndedAt
             /\ nIngest' = nIngest /\ now' = now
             /\ out' = <<>>]_vars

\* C35 witness: a fragment arrived for the session that a completed stop
\* had removed, and left no trace.
C35_Witness ==
    /\ last.op = "audio_chunk" /\ last.sid = "s1"
    /\ sessions["s1"] = 0 /\ Len(objs) = 1
    /\ dbStatus["s1"] = "COMPLETED"
    /\ objs[1].ring.index = 0 /\ objs[1].accumulatedMs = 0
    /\ nIngest = 0 /\ drains = {} /\ dbChunks["s1"] = <<>>
    /\ out = <<>>

\* C36: a start_session with an existing user for a session id that already
\* has a row in the store ends in the catch: it emits the start failure and
\* leaves no continuation, so the registry, every session state (ring,
\* queue, threshold, index), the drains and the store stay as they are.
C36_StartOfExistingSessionFails ==
    [][\A s \in SessionIds :
          (Arrives("start_session", s) /\ dbStatus[s] # "NONE"
            /\ last'.userId \in UserIds)
              => /\ EmitsError(s, {"Failed to start session."})
                 /\ handlers' = handlers
                 /\ sessions' = sessions /\ objs' = objs /\ drains' = drains
                 /\ dbStatus' = dbStatus /\ dbChunks' = dbChunks
                 /\ dbSummary' = dbSummary]_vars

\* C36 witness: a second start of the active session, three fragments into
\* its recording, was refused and the session state is untouched.
C36_Witness ==
    /\ last.op = "start_session" /\ last.sid = "s1" /\ last.userId = "u1"
    /\ out = <<ErrorEvent("s1", StartFailedMsg)>>
    /\ nCtl = 2 /\ handlers = EmptyBag
    /\ sessions["s1"] = 1 /\ Len(objs) = 1
    /\ objs[1].ring.index = 3 /\ objs[1].accumulatedMs = 9000
    /\ dbStatus["s1"] = "RECORDING"

\* C37: stop_session works from the store alone.  For a session that has a
\* row and no entry in the registry, the stop event is accepted (only a
\* failing lookup ends it, with the generic stop error), every step of its
\* handler can be taken while the registry has no entry, and the steps are
\* those of every stop: PROCESSING and the end time are written, the summary
\* row is written, COMPLETED is written and the completion event is emitted.
C37_StopNeedsNoRegistryEntry ==
    /\ [](\A s \in SessionIds :
             (sessions[s] = 0 /\ dbStatus[s] # "NONE" /\ nCtl < caps.ctl)
                 => ENABLED (StopSession(s, TRUE) /\ handlers' # handlers))
    /\ [](\A h \in Suspended :
             (h.op = "stop" /\ sessions[h.sid] = 0) => ENABLED StopProceeds(h))
    /\ [][\A s \in SessionIds :
             (Arrives("stop_session", s) /\ sessions[s] = 0 /\ dbStatus[s] # "NONE")
                 => \/ EmitsError(s, {StopFailedMsg}) /\ handlers' = handlers
                    \/ /\ out' = <<>>
                       /\ \E g \in BagToSet(handlers') :
                              /\ g.op = "stop" /\ g.sid = s /\ g.pc = "processing"
                              /\ handlers' = With(handlers, g)]_vars
    /\ [][\A h \in Suspended :
             (h.op = "stop" /\ Resumed(h) /\ sessions[h.sid] = 0)
                 => /\ sessions' = sessions /\ objs' = objs
                    /\ StopAborts(h) => EmitsError(h.sid, {StopFailedMsg})
                    /\ (h.pc = "processing" /\ ~StopAborts(h))
                           => /\ StopGoesOn(h, "findMany") # {}
                              /\ dbStatus'[h.sid] = "PROCESSING" /\ dbEndedAt'[h.sid]
                    /\ (h.pc = "findMany" /\ ~StopAborts(h))
                           => StopGoesOn(h, "summarize") # {}
                    /\ (h.pc = "summarize" /\ ~StopAborts(h))
                           => StopGoesOn(h, "upsert") # {}
                    /\ (h.pc = "upsert" /\ ~StopAborts(h))
                           => /\ \E g \in StopGoesOn(h, "completed") :
                                     dbSummary'[h.sid] = <<g.summary>>
                    /\ (h.pc = "completed" /\ ~StopAborts(h))
                           => /\ StopGoesOn(h, "finish") # {}
                              /\ dbStatus'[h.sid] = "COMPLETED"
                    /\ h.pc = "finish"
                           => /\ handlers' = Without(handlers, h)
                              /\ out' = <<Event("session_completed", h.sid,
                                                <<h.fullTranscript, h.summary>>)>>]_vars

\* C37 witness: the session was in the store at startup and was never
\* registered; one stop event took it to COMPLETED and emitted the
\* completion event with the stored chunks in index order.
C37_Witness ==
    /\ last.op = "stop_finish" /\ last.sid = "s1"
    /\ sessions["s1"] = 0 /\ objs = <<>> /\ nCtl = 1 /\ nIngest = 0
    /\ handlers = EmptyBag
    /\ dbStatus["s1"] = "COMPLETED" /\ dbEndedAt["s1"]
    /\ Len(dbSummary["s1"]) = 1
    /\ Len(out) = 1 /\ out[1].type = "session_completed"
    /\ Len(out[1].data[1]) = Len(StoredChunks)
    /\ out[1].data[2] = dbSummary["s1"][1]

\* C38: tab_audio_lost emits one audio_fallback event for the given session
\* id with mode "mic" and changes nothing else: the registry, every session
\* state (its mode included), the drains, the suspended handlers and the
\* store are as before, whether or not the id has a session.
C38_TabAudioLostOnlyEmits ==
    [][\A s \in SessionIds :
          Arrives("tab_audio_lost", s)
              => /\ out' = <<Event("audio_fallback", s, <<"mic">>)>>
                 /\ sessions' = sessions /\ objs' = objs
                 /\ drains' = drains /\ handlers' = handlers
                 /\ dbStatus' = dbStatus /\ dbEndedAt' = dbEndedAt
                 /\ dbChunks' = dbChunks /\ dbSummary' = dbSummary
                 /\ transcriptionModel' = transcriptionModel]_vars

\* C38 witness: the fallback was emitted for a session recording in "tab"
\* mode two fragments in, and the session is still in "tab" mode.
C38_Witness ==
    /\ last.op = "tab_audio_lost" /\ last.sid = "s1"
    /\ out = <<Event("audio_fallback", "s1", <<"mic">>)>>
    /\ sessions["s1"] = 1 /\ Len(objs) = 1
    /\ objs[1].mode = "tab" /\ objs[1].ring.index = 2
    /\ dbStatus["s1"] = "RECORDING"

\* C39: accumulatedMs is always a non-negative multiple of 3000 below
\* 45000, and right after a fragment has been taken in it is 0 or below
\* the threshold that fragment was compared with.
C39_AccumulatedMsBounded ==
    /\ uaccMs \in Nat /\ uaccMs % 3000 = 0 /\ uaccMs < 45000
    /\ ulast = "accumulate" => (uaccMs = 0 \/ uaccMs < uprevBatchMs)

\* C39 witness: the threshold has grown to its ceiling and the fragment just
\* taken in brought accumulatedMs one fragment short of it.
C39_Witness ==
    /\ ulast = "accumulate"
    /\ uprevBatchMs = MaxBatchMs /\ ubatchMs = MaxBatchMs
    /\ uaccMs = MaxBatchMs - FragmentMs

\* C40: the write position of the ring is always within 0 .. capacity - 1,
\* and after k pushes it is k mod capacity.
C40_RingIndexInRange ==
    /\ uring.index \in 0..(uring.capacity - 1)
    /\ uring.index = Len(upushed) % uring.capacity

\* C40 witness: four pushes into a ring of three slots; the write position
\* has wrapped and stands at 1.
C40_Witness ==
    /\ uring.capacity = 3 /\ Len(upushed) = 4
    /\ uring.index = 1


====
